---- MODULE Spec2Model ----
(***************************************************************************)
(* UnorderedMap<Key,T,Hash,KeyEqual>: a separate-chaining hash table.      *)
(* State machine over two table objects, "a" and "b", of one program.      *)
(* buckets_ is std::vector<std::list<value_type>>: a sequence of buckets,  *)
(* each a sequence of entries [first |-> key, second |-> mapped value].    *)
(* The code's bucket indices are 0-based; bucket i of the code is          *)
(* buckets_[i + 1] here.                                                   *)
(***************************************************************************)
EXTENDS Integers, Sequences, FiniteSets, TLC

\* ------------------------------------------------------------------ bounds
MaxKey == 2
MaxVal == 1
MaxBuckets == 2
MaxInit == 2

DEFAULT_BUCKET_COUNT == 16

Tables == {"a", "b"}
Keys == 1..MaxKey
\* T{} of operator[] is the value 0
Vals == 0..MaxVal
\* max_load_factor_ as a fraction <<p, q>> = p/q; all are exact floats
MLFs == {<<1, 2>>, <<1, 1>>}
\* initializer lists: the first pair carries MaxVal, the second 0
InitLists == {<<>>} \cup { <<[first |-> k, second |-> MaxVal]>> : k \in Keys }
                \cup { <<[first |-> k, second |-> MaxVal], [first |-> j, second |-> 0]>> :
                         k \in Keys, j \in Keys }

VARIABLES tables, ub, last

vars == <<tables, ub, last>>

\* ------------------------------------------------------------ pure helpers
RECURSIVE Flatten(_)
Flatten(bs) == IF bs = <<>> THEN <<>> ELSE Head(bs) \o Flatten(Tail(bs))

\* Hash: the hasher_ member, a fixed function of the key
hasher_(k) == 3 * k + 1

\* KeyEqual: the equal_ member (std::equal_to)
equal_(x, y) == x = y

bucket_count(T) == Len(T.buckets_)

size(T) == T.num_elements_

empty(T) == T.num_elements_ = 0

bucket_size(T, i) == Len(T.buckets_[i + 1])

\* hasher_(key) % buckets_.size(); the caller checks NoBuckets first
bucket(T, key) == hasher_(key) % Len(T.buckets_)

\* a % 0 in bucket() or rehash(): undefined behaviour
NoBuckets(T) == Len(T.buckets_) = 0

\* load_factor() > max_load_factor_ in float arithmetic: 0/0 is NaN (never
\* greater), n/0 is +inf; otherwise n/c > p/q
LoadExceeds(T) ==
    IF Len(T.buckets_) = 0
    THEN T.num_elements_ > 0
    ELSE T.num_elements_ * T.max_load_factor_[2] > T.max_load_factor_[1] * Len(T.buckets_)

\* std::vector<std::list<value_type>>(n): n empty buckets
RECURSIVE EmptyBuckets(_)
EmptyBuckets(n) == IF n = 0 THEN <<>> ELSE Append(EmptyBuckets(n - 1), <<>>)

\* the sized constructor
Ctor(n) == [buckets_ |-> EmptyBuckets(n), num_elements_ |-> 0,
            max_load_factor_ |-> <<1, 1>>]

\* the entries of the scan that rehash pushes into new_buckets[idx], in order
RECURSIVE Landing(_, _, _)
Landing(kvs, new_count, idx) ==
    IF kvs = <<>> THEN <<>>
    ELSE (IF hasher_(Head(kvs).first) % new_count = idx THEN <<Head(kvs)>> ELSE <<>>)
         \o Landing(Tail(kvs), new_count, idx)

\* new_buckets[0 .. upto - 1] once the scan is over
RECURSIVE NewBuckets(_, _, _)
NewBuckets(kvs, new_count, upto) ==
    IF upto = 0 THEN <<>>
    ELSE Append(NewBuckets(kvs, new_count, upto - 1), Landing(kvs, new_count, upto - 1))

\* rehash that reduces the hash by the old bucket count
rehashOldCount(T, new_count) ==
    [T EXCEPT !.buckets_ = NewBuckets(Flatten(T.buckets_), Len(T.buckets_), new_count)]

\* rehash that fills new_buckets and forgets buckets_.swap(new_buckets)
rehashNoSwap(T, new_count) == T

RECURSIVE Reverse(_)
Reverse(kvs) == IF kvs = <<>> THEN <<>> ELSE Append(Reverse(Tail(kvs)), Head(kvs))

\* rehash that scans the old buckets from the last entry to the first
rehashBackwards(T, new_count) ==
    [T EXCEPT !.buckets_ = NewBuckets(Reverse(Flatten(T.buckets_)), new_count, new_count)]

\* rehash(new_count): scan the old buckets in order, push_back into the new
rehash(T, new_count) ==
    [T EXCEPT !.buckets_ = NewBuckets(Flatten(T.buckets_), new_count, new_count)]

\* a growth check that compares the wrong way round
rehashIfBelow(T) ==
    IF ~LoadExceeds(T) /\ T.num_elements_ > 0 THEN rehash(T, Len(T.buckets_) * 2) ELSE T

\* a growth check that also fires when the load factor equals the threshold
rehashIfAtLeast(T) ==
    IF LoadExceeds(T) \/ (~NoBuckets(T) /\ T.num_elements_ * T.max_load_factor_[2]
                                           = T.max_load_factor_[1] * Len(T.buckets_))
    THEN rehash(T, Len(T.buckets_) * 2) ELSE T

\* a growth check that adds one bucket instead of doubling
rehashToNext(T) ==
    IF LoadExceeds(T) THEN rehash(T, Len(T.buckets_) + 1) ELSE T

\* a growth check that fires only above twice the threshold
rehashIfTwiceOver(T) ==
    IF /\ ~NoBuckets(T)
       /\ T.num_elements_ * T.max_load_factor_[2] > 2 * T.max_load_factor_[1] * Len(T.buckets_)
    THEN rehash(T, Len(T.buckets_) * 2) ELSE T

\* rehash_if_needed(): if (load_factor() > max_load_factor_) rehash(2 * size)
rehash_if_needed(T) ==
    IF LoadExceeds(T) THEN rehash(T, Len(T.buckets_) * 2) ELSE T

\* position (1-based) of the first entry of the list with an equal key, 0 if none
RECURSIVE ScanFrom(_, _, _)
ScanFrom(lst, key, i) ==
    IF i > Len(lst) THEN 0
    ELSE IF equal_(lst[i].first, key) THEN i
    ELSE ScanFrom(lst, key, i + 1)

Scan(lst, key) == ScanFrom(lst, key, 1)

\* some entry of T has the key k; the value of that entry
Stored(T, k) == \E i \in 1..Len(Flatten(T.buckets_)) : Flatten(T.buckets_)[i].first = k

ValueOf(T, k) ==
    LET F == Flatten(T.buckets_)
    IN F[CHOOSE i \in 1..Len(F) : F[i].first = k].second

\* ---------------------------------------------------------------- cursors
\* iterator(map, bucket, it): bucket_index_ and list_it_; list_it_ is the
\* pair <<bucket whose list it walks, position in it>>, Len + 1 being that
\* list's end(); a value-initialised list iterator is <<-1, 0>>
Iter(b, lb, lp) == [bucket_index_ |-> b, list_it_ |-> <<lb, lp>>]

end(T) == Iter(Len(T.buckets_), -1, 0)

RECURSIVE BeginFrom(_, _)
BeginFrom(T, i) ==
    IF i >= Len(T.buckets_) THEN end(T)
    ELSE IF T.buckets_[i + 1] # <<>> THEN Iter(i, i, 1)
    ELSE BeginFrom(T, i + 1)

begin(T) == BeginFrom(T, 0)

\* iterator::operator== for two iterators of the same map
IterEq(T, x, y) ==
    /\ x.bucket_index_ = y.bucket_index_
    /\ (x.bucket_index_ = Len(T.buckets_) \/ x.list_it_ = y.list_it_)

\* a loop of advance() that forgets list_it_ = buckets_[bucket_index_].begin()
RECURSIVE skipNoBegin(_, _)
skipNoBegin(T, it) ==
    IF /\ it.bucket_index_ < Len(T.buckets_)
       /\ it.list_it_[2] = Len(T.buckets_[it.list_it_[1] + 1]) + 1
    THEN skipNoBegin(T, [it EXCEPT !.bucket_index_ = it.bucket_index_ + 1])
    ELSE it

\* the while loop of advance()
RECURSIVE Skip(_, _)
Skip(T, it) ==
    IF /\ it.bucket_index_ < Len(T.buckets_)
       /\ it.list_it_[2] = Len(T.buckets_[it.list_it_[1] + 1]) + 1
    THEN IF it.bucket_index_ + 1 < Len(T.buckets_)
         THEN Skip(T, Iter(it.bucket_index_ + 1, it.bucket_index_ + 1, 1))
         ELSE Skip(T, [it EXCEPT !.bucket_index_ = it.bucket_index_ + 1])
    ELSE it

\* an advance that steps into the next bucket once instead of looping over
\* the empty ones
advanceOneBucket(T, it) ==
    IF it.bucket_index_ >= Len(T.buckets_) THEN it
    ELSE IF it.list_it_[2] + 1 <= Len(T.buckets_[it.list_it_[1] + 1])
         THEN [it EXCEPT !.list_it_ = <<it.list_it_[1], it.list_it_[2] + 1>>]
         ELSE IF it.bucket_index_ + 1 < Len(T.buckets_)
              THEN Iter(it.bucket_index_ + 1, it.bucket_index_ + 1, 1)
              ELSE [it EXCEPT !.bucket_index_ = it.bucket_index_ + 1]

advance(T, it) ==
    IF it.bucket_index_ >= Len(T.buckets_) THEN it
    ELSE Skip(T, [it EXCEPT !.list_it_ = <<it.list_it_[1], it.list_it_[2] + 1>>])

\* operator*
Deref(T, it) == T.buckets_[it.list_it_[1] + 1][it.list_it_[2]]

\* for (it = begin(); it != end(); ++it) collect *it
RECURSIVE Walk(_, _)
Walk(T, it) ==
    IF IterEq(T, it, end(T)) THEN <<>>
    ELSE <<Deref(T, it)>> \o Walk(T, advance(T, it))

Traversal(T) == Walk(T, begin(T))

\* a find that compares only the first entry of the bucket
findHeadOnly(T, key) ==
    LET idx == bucket(T, key)
    IN IF T.buckets_[idx + 1] # <<>> /\ equal_(T.buckets_[idx + 1][1].first, key)
       THEN Iter(idx, idx, 1) ELSE end(T)

\* find(key); the caller checks NoBuckets first
find(T, key) ==
    LET idx == bucket(T, key)
        p == Scan(T.buckets_[idx + 1], key)
    IN IF p # 0 THEN Iter(idx, idx, p) ELSE end(T)

contains(T, key) == ~IterEq(T, find(T, key), end(T))

count(T, key) == IF contains(T, key) THEN 1 ELSE 0

\* --------------------------------------------------------- insert, erase
\* insert that appends without scanning the bucket for the key
insertNoScan(T, kv) ==
    LET T1 == rehash_if_needed(T)
        idx == bucket(T1, kv.first)
    IN [map |-> [T1 EXCEPT !.buckets_[idx + 1] = Append(@, kv),
                           !.num_elements_ = @ + 1],
        it |-> Iter(idx, idx, Len(T1.buckets_[idx + 1]) + 1),
        inserted |-> TRUE]

\* insert that puts the new entry at the head of the bucket's list
insertAtFront(T, kv) ==
    LET T1 == rehash_if_needed(T)
        idx == bucket(T1, kv.first)
        p == Scan(T1.buckets_[idx + 1], kv.first)
    IN IF p # 0
       THEN [map |-> T1, it |-> Iter(idx, idx, p), inserted |-> FALSE]
       ELSE [map |-> [T1 EXCEPT !.buckets_[idx + 1] = <<kv>> \o @,
                                !.num_elements_ = @ + 1],
             it |-> Iter(idx, idx, 1),
             inserted |-> TRUE]

\* insert that looks the key up first and runs the growth check only when
\* it is about to add an entry
insertCheckAfterScan(T, kv) ==
    LET idx0 == bucket(T, kv.first)
        p0 == Scan(T.buckets_[idx0 + 1], kv.first)
        T1 == rehash_if_needed(T)
        idx == bucket(T1, kv.first)
    IN IF p0 # 0
       THEN [map |-> T, it |-> Iter(idx0, idx0, p0), inserted |-> FALSE]
       ELSE [map |-> [T1 EXCEPT !.buckets_[idx + 1] = Append(@, kv),
                                !.num_elements_ = @ + 1],
             it |-> Iter(idx, idx, Len(T1.buckets_[idx + 1]) + 1),
             inserted |-> TRUE]

\* an insert that computes the bucket index of its iterator before the
\* growth check
insertIndexBeforeCheck(T, kv) ==
    LET idx0 == bucket(T, kv.first)
        T1 == rehash_if_needed(T)
        idx == bucket(T1, kv.first)
        p == Scan(T1.buckets_[idx + 1], kv.first)
    IN IF p # 0
       THEN [map |-> T1, it |-> Iter(idx0, idx, p), inserted |-> FALSE]
       ELSE [map |-> [T1 EXCEPT !.buckets_[idx + 1] = Append(@, kv),
                                !.num_elements_ = @ + 1],
             it |-> Iter(idx0, idx, Len(T1.buckets_[idx + 1]) + 1),
             inserted |-> TRUE]

\* insert(kv) on a table with at least one bucket after the growth check:
\* the new table, the returned iterator and the returned flag
insert(T, kv) ==
    LET T1 == rehash_if_needed(T)
        idx == bucket(T1, kv.first)
        p == Scan(T1.buckets_[idx + 1], kv.first)
    IN IF p # 0
       THEN [map |-> T1, it |-> Iter(idx, idx, p), inserted |-> FALSE]
       ELSE [map |-> [T1 EXCEPT !.buckets_[idx + 1] = Append(@, kv),
                                !.num_elements_ = @ + 1],
             it |-> Iter(idx, idx, Len(T1.buckets_[idx + 1]) + 1),
             inserted |-> TRUE]

\* insert reaches hasher_(key) % 0
InsertUB(T) == NoBuckets(rehash_if_needed(T))

\* for (auto& kv : ...) insert(kv); ok is FALSE once an insert divides by
\* zero, and map is then the table as that insert found it
RECURSIVE InsertAll(_, _)
InsertAll(T, kvs) ==
    IF kvs = <<>> THEN [ok |-> TRUE, map |-> T]
    ELSE IF InsertUB(T) THEN [ok |-> FALSE, map |-> T]
    ELSE InsertAll(insert(T, Head(kvs)).map, Tail(kvs))

RemoveAt(lst, p) == SubSeq(lst, 1, p - 1) \o SubSeq(lst, p + 1, Len(lst))

\* an erase that fills the hole with the list's last entry
eraseBackfill(T, key) ==
    LET idx == bucket(T, key)
        lst == T.buckets_[idx + 1]
        p == Scan(lst, key)
    IN IF p # 0
       THEN [map |-> [T EXCEPT !.buckets_[idx + 1] =
                                  IF p = Len(lst) THEN RemoveAt(lst, p)
                                  ELSE SubSeq(lst, 1, p - 1) \o <<lst[Len(lst)]>>
                                       \o SubSeq(lst, p + 1, Len(lst) - 1),
                               !.num_elements_ = @ - 1],
             n |-> 1]
       ELSE [map |-> T, n |-> 0]

\* an erase that forgets lst.erase(it): the count drops, the node stays
eraseKeepsNode(T, key) ==
    LET idx == bucket(T, key)
        p == Scan(T.buckets_[idx + 1], key)
    IN IF p # 0
       THEN [map |-> [T EXCEPT !.num_elements_ = @ - 1], n |-> 1]
       ELSE [map |-> T, n |-> 0]

\* erase(key) on a table with at least one bucket: the new table and the count
erase(T, key) ==
    LET idx == bucket(T, key)
        p == Scan(T.buckets_[idx + 1], key)
    IN IF p # 0
       THEN [map |-> [T EXCEPT !.buckets_[idx + 1] = RemoveAt(@, p),
                               !.num_elements_ = @ - 1],
             n |-> 1]
       ELSE [map |-> T, n |-> 0]

\* a clear that resets num_elements_ and leaves the buckets as they are
clearCountOnly(T) == [T EXCEPT !.num_elements_ = 0]

\* clear(): every bucket's list is cleared, num_elements_ = 0
clear(T) == [T EXCEPT !.buckets_ = EmptyBuckets(Len(T.buckets_)),
                      !.num_elements_ = 0]

\* every bucket count a call may produce stays within the model's bound
Fits(T) == Len(T.buckets_) <= MaxBuckets

RECURSIVE AllFit(_, _)
AllFit(T, kvs) ==
    IF kvs = <<>> THEN TRUE
    ELSE IF ~Fits(rehash_if_needed(T)) THEN FALSE
    ELSE IF InsertUB(T) THEN TRUE
    ELSE AllFit(insert(T, Head(kvs)).map, Tail(kvs))

\* ------------------------------------------------------------ the program
\* the record of the last call: operation, table, other table, key, value,
\* returned flag, returned iterator, returned number, how it ended, the
\* bucket count of table t when the call was made, and the initializer list
\* a constructor was given
Call(op, t, s, k, v, flag, it, n, out) ==
    [op |-> op, t |-> t, s |-> s, k |-> k, v |-> v, flag |-> flag, it |-> it,
     n |-> n, out |-> out, c0 |-> Len(tables[t].buckets_), init |-> <<>>]

NoIter == Iter(-1, -1, 0)

Init ==
    /\ \E na \in 0..MaxInit, nb \in 0..MaxInit :
          tables = [t \in Tables |-> IF t = "a" THEN Ctor(na) ELSE Ctor(nb)]
    /\ ub = "none"
    /\ last = [op |-> "ctor", t |-> "a", s |-> "b", k |-> 0, v |-> 0, flag |-> FALSE,
               it |-> NoIter, n |-> 0, out |-> "ok", c0 |-> 0, init |-> <<>>]

\* the division hasher_(key) % 0 traps (SIGFPE), or yields a value and the
\* access into the empty bucket array faults (SIGSEGV): the process ends
Abort(op, t, s, k, v) ==
    /\ \E sig \in {"SIGFPE", "SIGSEGV"} : ub' = sig
    /\ last' = Call(op, t, s, k, v, FALSE, NoIter, 0, "abort")
    /\ UNCHANGED tables

InsertCall(op, t, k, v) ==
    LET T == tables[t] IN
    /\ ub = "none"
    /\ IF InsertUB(T)
       THEN Abort(op, t, t, k, v)
       ELSE LET r == insert(T, [first |-> k, second |-> v]) IN
            /\ tables' = [tables EXCEPT ![t] = r.map]
            /\ last' = Call(op, t, t, k, v, r.inserted, r.it, 0, "ok")
            /\ UNCHANGED ub

Insert(t, k, v) ==
    /\ Fits(rehash_if_needed(tables[t]))
    /\ InsertCall("insert", t, k, v)

\* emplace(args...): value_type kv(args...); return insert(kv)
Emplace(t, k, v) ==
    /\ Fits(rehash_if_needed(tables[t]))
    /\ InsertCall("emplace", t, k, v)

\* operator[](key): insert({key, T{}}) and a reference to the stored value
IndexCall(t, k) ==
    LET T == tables[t] IN
    /\ ub = "none"
    /\ IF InsertUB(T)
       THEN Abort("operator[]", t, t, k, 0)
       ELSE LET r == insert(T, [first |-> k, second |-> 0]) IN
            /\ tables' = [tables EXCEPT ![t] = r.map]
            /\ last' = Call("operator[]", t, t, k, Deref(r.map, r.it).second,
                            r.inserted, r.it, 0, "ok")
            /\ UNCHANGED ub

Index(t, k) ==
    /\ Fits(rehash_if_needed(tables[t]))
    /\ IndexCall(t, k)

\* a write that reaches every entry of the bucket the iterator is in
RECURSIVE WriteAll(_, _)
WriteAll(lst, v) ==
    IF lst = <<>> THEN <<>>
    ELSE <<[Head(lst) EXCEPT !.second = v]>> \o WriteAll(Tail(lst), v)

storeWholeBucket(T, it, v) ==
    [T EXCEPT !.buckets_[it.list_it_[1] + 1] = WriteAll(@, v)]

\* *it = v through the reference operator[] or at returned: the mapped value
\* of the entry the iterator is at becomes v
Store(T, it, v) ==
    [T EXCEPT !.buckets_[it.list_it_[1] + 1][it.list_it_[2]].second = v]

\* m[key] = v: operator[](key), then the assignment through the reference
IndexAssign(t, k, v) ==
    LET T == tables[t] IN
    /\ ub = "none"
    /\ Fits(rehash_if_needed(T))
    /\ IF InsertUB(T)
       THEN Abort("operator[]=", t, t, k, v)
       ELSE LET r == insert(T, [first |-> k, second |-> 0]) IN
            /\ tables' = [tables EXCEPT ![t] = Store(r.map, r.it, v)]
            /\ last' = Call("operator[]=", t, t, k, v, r.inserted, r.it, 0, "ok")
            /\ UNCHANGED ub

Erase(t, k) ==
    LET T == tables[t] IN
    /\ ub = "none"
    /\ IF NoBuckets(T)
       THEN Abort("erase", t, t, k, 0)
       ELSE LET r == erase(T, k) IN
            /\ tables' = [tables EXCEPT ![t] = r.map]
            /\ last' = Call("erase", t, t, k, 0, FALSE, NoIter, r.n, "ok")
            /\ UNCHANGED ub

Clear(t) ==
    /\ ub = "none"
    /\ tables' = [tables EXCEPT ![t] = clear(@)]
    /\ last' = Call("clear", t, t, 0, 0, FALSE, NoIter, 0, "ok")
    /\ UNCHANGED ub

Rehash(t, n) ==
    LET T == tables[t] IN
    /\ ub = "none"
    /\ IF n = 0 /\ T.num_elements_ > 0
       THEN Abort("rehash", t, t, 0, 0)
       ELSE /\ tables' = [tables EXCEPT ![t] = rehash(T, n)]
            /\ last' = Call("rehash", t, t, 0, 0, FALSE, NoIter, n, "ok")
            /\ UNCHANGED ub

\* max_load_factor(ml): max_load_factor_ = ml; rehash_if_needed()
MaxLoadFactorCall(t, ml) ==
    LET T == [tables[t] EXCEPT !.max_load_factor_ = ml] IN
    /\ ub = "none"
    /\ tables' = [tables EXCEPT ![t] = rehash_if_needed(T)]
    /\ last' = Call("max_load_factor", t, t, 0, 0, FALSE, NoIter, 0, "ok")
    /\ UNCHANGED ub

MaxLoadFactor(t, ml) ==
    /\ Fits(rehash_if_needed([tables[t] EXCEPT !.max_load_factor_ = ml]))
    /\ MaxLoadFactorCall(t, ml)

\* a copy constructor that takes the source's bucket array instead of
\* copying the entries
copyBySteal(t, s) ==
    /\ ub = "none"
    /\ t # s
    /\ tables' = [tables EXCEPT ![t] = tables[s],
                                ![s] = [tables[s] EXCEPT !.buckets_ = <<>>,
                                                         !.num_elements_ = 0]]
    /\ last' = Call("copy", t, s, 0, 0, FALSE, NoIter, 0, "ok")
    /\ UNCHANGED ub

\* every bucket count a copy of table s passes through stays within the
\* model's bound
CopyFits(s) ==
    LET S == tables[s]
        T0 == [buckets_ |-> EmptyBuckets(Len(S.buckets_)), num_elements_ |-> 0,
               max_load_factor_ |-> S.max_load_factor_]
    IN AllFit(T0, Flatten(S.buckets_))

\* UnorderedMap t(s): the object t is constructed as a copy of s
CopyConstructCall(t, s) ==
    LET S == tables[s]
        T0 == [buckets_ |-> EmptyBuckets(Len(S.buckets_)), num_elements_ |-> 0,
               max_load_factor_ |-> S.max_load_factor_]
        r == InsertAll(T0, Flatten(S.buckets_))
    IN
    /\ ub = "none"
    /\ t # s
    /\ IF ~r.ok
       THEN Abort("copy", t, s, 0, 0)
       ELSE /\ tables' = [tables EXCEPT ![t] = r.map]
            /\ last' = Call("copy", t, s, 0, 0, FALSE, NoIter, 0, "ok")
            /\ UNCHANGED ub

CopyConstruct(t, s) ==
    /\ CopyFits(s)
    /\ CopyConstructCall(t, s)

\* a move that forgets other.num_elements_ = 0
MovedFromKeepsCount(S) == [S EXCEPT !.buckets_ = <<>>]

\* a moved-from std::vector is empty
MovedFrom(S) == [S EXCEPT !.buckets_ = <<>>, !.num_elements_ = 0]

\* UnorderedMap t(std::move(s))
MoveConstruct(t, s) ==
    /\ ub = "none"
    /\ t # s
    /\ tables' = [tables EXCEPT ![t] = tables[s], ![s] = MovedFrom(tables[s])]
    /\ last' = Call("move", t, s, 0, 0, FALSE, NoIter, 0, "ok")
    /\ UNCHANGED ub

\* a copy assignment that forgets clear() and max_load_factor_ =
\* other.max_load_factor_: the entries of other are inserted next to the
\* entries this table already holds
copyAssignNoClear(t, s) ==
    LET r == InsertAll(tables[t], Flatten(tables[s].buckets_)) IN
    /\ ub = "none"
    /\ IF t = s \/ ~r.ok
       THEN /\ last' = Call("copy=", t, s, 0, 0, FALSE, NoIter, 0, "ok")
            /\ UNCHANGED <<tables, ub>>
       ELSE /\ tables' = [tables EXCEPT ![t] = r.map]
            /\ last' = Call("copy=", t, s, 0, 0, FALSE, NoIter, 0, "ok")
            /\ UNCHANGED ub

\* t = s
CopyAssignCall(t, s) ==
    LET S == tables[s]
        T0 == [buckets_ |-> EmptyBuckets(Len(S.buckets_)), num_elements_ |-> 0,
               max_load_factor_ |-> S.max_load_factor_]
        r == InsertAll(T0, Flatten(S.buckets_))
    IN
    /\ ub = "none"
    /\ IF t = s
       THEN /\ last' = Call("copy=", t, s, 0, 0, FALSE, NoIter, 0, "ok")
            /\ UNCHANGED <<tables, ub>>
       ELSE IF ~r.ok
            THEN Abort("copy=", t, s, 0, 0)
            ELSE /\ tables' = [tables EXCEPT ![t] = r.map]
                 /\ last' = Call("copy=", t, s, 0, 0, FALSE, NoIter, 0, "ok")
                 /\ UNCHANGED ub

CopyAssign(t, s) ==
    /\ (t # s) => CopyFits(s)
    /\ CopyAssignCall(t, s)

\* a move assignment that forgets max_load_factor_ = other.max_load_factor_
moveAssignKeepsLoad(t, s) ==
    /\ ub = "none"
    /\ tables' = IF t = s THEN tables
                 ELSE [tables EXCEPT
                         ![t] = [tables[s] EXCEPT !.max_load_factor_ =
                                                     tables[t].max_load_factor_],
                         ![s] = MovedFrom(tables[s])]
    /\ last' = Call("move=", t, s, 0, 0, FALSE, NoIter, 0, "ok")
    /\ UNCHANGED ub

\* t = std::move(s)
MoveAssign(t, s) ==
    /\ ub = "none"
    /\ tables' = IF t = s THEN tables
                 ELSE [tables EXCEPT ![t] = tables[s], ![s] = MovedFrom(tables[s])]
    /\ last' = Call("move=", t, s, 0, 0, FALSE, NoIter, 0, "ok")
    /\ UNCHANGED ub

\* t = {kv, ...}
AssignList(t, init) ==
    LET T0 == clear(tables[t])
        r == InsertAll(T0, init)
    IN
    /\ ub = "none"
    /\ AllFit(T0, init)
    /\ IF ~r.ok
       THEN /\ \E sig \in {"SIGFPE", "SIGSEGV"} : ub' = sig
            /\ tables' = [tables EXCEPT ![t] = r.map]
            /\ last' = Call("list=", t, t, 0, 0, FALSE, NoIter, 0, "abort")
       ELSE /\ tables' = [tables EXCEPT ![t] = r.map]
            /\ last' = Call("list=", t, t, 0, 0, FALSE, NoIter, Len(init), "ok")
            /\ UNCHANGED ub

\* m.at(key) = v: at(key) throws for a missing key, otherwise the assignment
\* goes through the reference it returned
AtAssign(t, k, v) ==
    LET T == tables[t] IN
    /\ ub = "none"
    /\ IF NoBuckets(T)
       THEN Abort("at=", t, t, k, v)
       ELSE LET it == find(T, k) IN
            IF IterEq(T, it, end(T))
            THEN /\ last' = Call("at=", t, t, k, v, FALSE, NoIter, 0, "KeyNotFound")
                 /\ UNCHANGED <<tables, ub>>
            ELSE /\ tables' = [tables EXCEPT ![t] = Store(T, it, v)]
                 /\ last' = Call("at=", t, t, k, v, FALSE, it, 0, "ok")
                 /\ UNCHANGED ub

\* auto it = m.find(key); if (it != m.end()) it->second = v;
CursorAssign(t, k, v) ==
    LET T == tables[t] IN
    /\ ub = "none"
    /\ IF NoBuckets(T)
       THEN Abort("it=", t, t, k, v)
       ELSE LET it == find(T, k) IN
            IF IterEq(T, it, end(T))
            THEN /\ last' = Call("it=", t, t, k, v, FALSE, it, 0, "ok")
                 /\ UNCHANGED <<tables, ub>>
            ELSE /\ tables' = [tables EXCEPT ![t] = Store(T, it, v)]
                 /\ last' = Call("it=", t, t, k, v, TRUE, it, 0, "ok")
                 /\ UNCHANGED ub

\* UnorderedMap t(init, n): the object t is constructed with n buckets and
\* every pair of init is inserted in turn
ListConstruct(t, init, n) ==
    LET r == InsertAll(Ctor(n), init) IN
    /\ ub = "none"
    /\ AllFit(Ctor(n), init)
    /\ tables' = [tables EXCEPT ![t] = r.map]
    /\ IF ~r.ok
       THEN /\ \E sig \in {"SIGFPE", "SIGSEGV"} : ub' = sig
            /\ last' = [Call("list", t, t, 0, 0, FALSE, NoIter, n, "abort")
                           EXCEPT !.init = init]
       ELSE /\ last' = [Call("list", t, t, 0, 0, FALSE, NoIter, n, "ok")
                           EXCEPT !.init = init]
            /\ UNCHANGED ub

\* a swap that exchanges buckets_ and num_elements_ and forgets
\* swap(max_load_factor_, other.max_load_factor_)
swapKeepsLoad(tbls, t, s) ==
    [tbls EXCEPT ![t] = [tbls[s] EXCEPT !.max_load_factor_ = tbls[t].max_load_factor_],
                 ![s] = [tbls[t] EXCEPT !.max_load_factor_ = tbls[s].max_load_factor_]]

\* swap(other): std::swap of buckets_, num_elements_ and max_load_factor_
\* between the objects t and s (hasher_ and equal_ are the same in both)
swap(tbls, t, s) == [tbls EXCEPT ![t] = tbls[s], ![s] = tbls[t]]

\* t.swap(s)
Swap(t, s) ==
    /\ ub = "none"
    /\ tables' = swap(tables, t, s)
    /\ last' = Call("swap", t, s, 0, 0, FALSE, NoIter, 0, "ok")
    /\ UNCHANGED ub

\* at(key): the value, or std::out_of_range
At(t, k) ==
    LET T == tables[t] IN
    /\ ub = "none"
    /\ IF NoBuckets(T)
       THEN Abort("at", t, t, k, 0)
       ELSE LET it == find(T, k) IN
            /\ last' = IF IterEq(T, it, end(T))
                       THEN Call("at", t, t, k, 0, FALSE, NoIter, 0, "KeyNotFound")
                       ELSE Call("at", t, t, k, Deref(T, it).second, FALSE, NoIter, 0, "ok")
            /\ UNCHANGED <<tables, ub>>

Find(t, k) ==
    LET T == tables[t] IN
    /\ ub = "none"
    /\ IF NoBuckets(T)
       THEN Abort("find", t, t, k, 0)
       ELSE /\ last' = Call("find", t, t, k, 0, FALSE, find(T, k), 0, "ok")
            /\ UNCHANGED <<tables, ub>>

Contains(t, k) ==
    LET T == tables[t] IN
    /\ ub = "none"
    /\ IF NoBuckets(T)
       THEN Abort("contains", t, t, k, 0)
       ELSE /\ last' = Call("contains", t, t, k, 0, contains(T, k), NoIter, 0, "ok")
            /\ UNCHANGED <<tables, ub>>

Count(t, k) ==
    LET T == tables[t] IN
    /\ ub = "none"
    /\ IF NoBuckets(T)
       THEN Abort("count", t, t, k, 0)
       ELSE /\ last' = Call("count", t, t, k, 0, FALSE, NoIter, count(T, k), "ok")
            /\ UNCHANGED <<tables, ub>>

\* Calls on one table are made on "a"; "b" is the other operand of copy,
\* move, assignment and swap, and swap hands every value of "a" to "b".
Next ==
    \/ \E k \in Keys, v \in Vals : Insert("a", k, v)
    \/ \E k \in Keys, v \in Vals : Emplace("a", k, v)
    \/ \E k \in Keys : Index("a", k)
    \/ \E k \in Keys, v \in Vals : IndexAssign("a", k, v)
    \/ \E k \in Keys : Erase("a", k)
    \/ Clear("a")
    \/ \E n \in 0..MaxBuckets : Rehash("a", n)
    \/ \E ml \in MLFs : MaxLoadFactor("a", ml)
    \/ \E t \in Tables, s \in Tables : CopyConstruct(t, s)
    \/ \E t \in Tables, s \in Tables : MoveConstruct(t, s)
    \/ \E t \in Tables, s \in Tables : CopyAssign(t, s)
    \/ \E t \in Tables, s \in Tables : MoveAssign(t, s)
    \/ \E init \in InitLists : AssignList("a", init)
    \/ \E t \in Tables, s \in Tables : Swap(t, s)
    \/ \E k \in Keys : At("a", k)
    \/ \E k \in Keys : Find("a", k)
    \/ \E k \in Keys : Contains("a", k)
    \/ \E k \in Keys : Count("a", k)

Spec == Init /\ [][Next]_vars

\* --------------------------------------------------- the growth scenario
\* A default-constructed table (16 buckets, max_load_factor 1.0) receives
\* distinct keys, one more than it has buckets and then one more; each key k
\* is inserted with the value k % (MaxVal + 1). The keys go in from either
\* end of the range, so the runs differ in their order of insertion.
ScenarioKeys == 1..(DEFAULT_BUCKET_COUNT + 2)

ScenarioValue(k) == k % (MaxVal + 1)

Remaining == { k \in ScenarioKeys : ~Stored(tables["a"], k) }

GrowthInit ==
    /\ tables = [t \in Tables |-> Ctor(DEFAULT_BUCKET_COUNT)]
    /\ ub = "none"
    /\ last = [op |-> "ctor", t |-> "a", s |-> "b", k |-> 0, v |-> 0, flag |-> FALSE,
               it |-> NoIter, n |-> 0, out |-> "ok", c0 |-> 0, init |-> <<>>]

ScenarioInsert(k) ==
    /\ k \in Remaining
    /\ (\A j \in Remaining : k <= j) \/ (\A j \in Remaining : k >= j)
    /\ InsertCall("insert", "a", k, ScenarioValue(k))

GrowthNext == \E k \in ScenarioKeys : ScenarioInsert(k)

GrowthSpec == GrowthInit /\ [][GrowthNext]_vars

\* ------------------------------------------------- chains of three entries
\* One table receives three keys, two of which share a bucket whenever it
\* has two buckets and all of which share the only bucket when it has one,
\* so that a bucket's list can hold an entry before and an entry after
\* another. The caller stamps each pair it inserts: the value is one more
\* than the greatest value stored, so that of two stored entries the one
\* inserted earlier has the smaller value.
MaxChainKey == 3

MaxStamp == 4

ChainKeys == 1..MaxChainKey

RECURSIVE Newest(_)
Newest(kvs) ==
    IF kvs = <<>> THEN 0
    ELSE IF Head(kvs).second > Newest(Tail(kvs)) THEN Head(kvs).second
    ELSE Newest(Tail(kvs))

Stamp(T) == Newest(Flatten(T.buckets_)) + 1

StampedInsert(k) ==
    /\ Stamp(tables["a"]) <= MaxStamp
    /\ Insert("a", k, Stamp(tables["a"]))

StampedEmplace(k) ==
    /\ Stamp(tables["a"]) <= MaxStamp
    /\ Emplace("a", k, Stamp(tables["a"]))

ChainNext ==
    \/ \E k \in ChainKeys : StampedInsert(k)
    \/ \E k \in ChainKeys : StampedEmplace(k)
    \/ \E k \in ChainKeys : Erase("a", k)
    \/ \E n \in 0..MaxBuckets : Rehash("a", n)
    \/ \E ml \in MLFs : MaxLoadFactor("a", ml)

ChainSpec == Init /\ [][ChainNext]_vars

\* ------------------------------------------- construction from a list
\* A table is constructed from an initializer list of up to MaxList pairs,
\* duplicates of a key included, with a bucket count of the caller's choice,
\* and is then looked up.
MaxList == 3

ListPairs == { [first |-> k, second |-> v] : k \in Keys, v \in Vals }

RECURSIVE ListsOf(_)
ListsOf(n) ==
    IF n = 0 THEN {<<>>}
    ELSE ListsOf(n - 1) \cup { Append(l, kv) : l \in ListsOf(n - 1), kv \in ListPairs }

ListNext ==
    \/ \E init \in ListsOf(MaxList), n \in 0..MaxBuckets : ListConstruct("a", init, n)
    \/ \E k \in Keys : Find("a", k)

ListSpec == Init /\ [][ListNext]_vars

\* ------------------------------------------------------ repeated growth
\* One table receives three keys through insert, emplace and operator[]
\* and has its threshold changed, the bucket array growing as the code
\* grows it, up to MaxGrown buckets.
MaxGrown == 8

Grown(T) == Len(rehash_if_needed(T).buckets_) <= MaxGrown

GrowingInsert(k, v) == Grown(tables["a"]) /\ InsertCall("insert", "a", k, v)

GrowingEmplace(k, v) == Grown(tables["a"]) /\ InsertCall("emplace", "a", k, v)

GrowingIndex(k) == Grown(tables["a"]) /\ IndexCall("a", k)

GrowingMaxLoadFactor(ml) ==
    /\ Grown([tables["a"] EXCEPT !.max_load_factor_ = ml])
    /\ MaxLoadFactorCall("a", ml)

DoublingNext ==
    \/ \E k \in ChainKeys, v \in Vals : GrowingInsert(k, v)
    \/ \E k \in ChainKeys, v \in Vals : GrowingEmplace(k, v)
    \/ \E k \in ChainKeys : GrowingIndex(k)
    \/ \E ml \in MLFs : GrowingMaxLoadFactor(ml)
    \/ \E k \in ChainKeys : Erase("a", k)

DoublingSpec == Init /\ [][DoublingNext]_vars

\* ------------------------------------------------ writes through references
\* One table takes inserts and erasures, is rehashed, and has mapped values
\* written through operator[], through at and through a cursor.
WriteNext ==
    \/ \E k \in Keys, v \in Vals : Insert("a", k, v)
    \/ \E k \in Keys, v \in Vals : IndexAssign("a", k, v)
    \/ \E k \in Keys, v \in Vals : AtAssign("a", k, v)
    \/ \E k \in Keys, v \in Vals : CursorAssign("a", k, v)
    \/ \E k \in Keys : Erase("a", k)
    \/ \E n \in 0..MaxBuckets : Rehash("a", n)
    \/ \E k \in Keys : At("a", k)

WriteSpec == Init /\ [][WriteNext]_vars

\* ------------------------------------------------- the default threshold
\* Two tables constructed with at least one bucket keep max_load_factor 1.0:
\* one takes insert and emplace (key k with the value k % (MaxVal + 1)),
\* operator[], erase, clear and the lookups, and each is copied into the
\* other by construction and by assignment.
OvershootInit ==
    /\ \E na \in 1..MaxInit, nb \in 1..MaxInit :
          tables = [t \in Tables |-> IF t = "a" THEN Ctor(na) ELSE Ctor(nb)]
    /\ ub = "none"
    /\ last = [op |-> "ctor", t |-> "a", s |-> "b", k |-> 0, v |-> 0, flag |-> FALSE,
               it |-> NoIter, n |-> 0, out |-> "ok", c0 |-> 0, init |-> <<>>]

GrownCopy(s) == Len(tables[s].buckets_) * 2 <= MaxGrown

OvershootNext ==
    \/ \E k \in ChainKeys : GrowingInsert(k, ScenarioValue(k))
    \/ \E k \in ChainKeys : GrowingEmplace(k, ScenarioValue(k))
    \/ \E k \in ChainKeys : GrowingIndex(k)
    \/ \E k \in ChainKeys : Erase("a", k)
    \/ Clear("a")
    \/ \E t \in Tables, s \in Tables : GrownCopy(s) /\ CopyConstructCall(t, s)
    \/ \E t \in Tables, s \in Tables : GrownCopy(s) /\ CopyAssignCall(t, s)
    \/ \E k \in Keys : At("a", k)
    \/ \E k \in Keys : Find("a", k)
    \/ \E k \in Keys : Contains("a", k)
    \/ \E k \in Keys : Count("a", k)

OvershootSpec == OvershootInit /\ [][OvershootNext]_vars

\* ------------------------------------------------------------------ claims
RECURSIVE SumBucketSizes(_, _)
SumBucketSizes(T, n) ==
    IF n = 0 THEN 0 ELSE bucket_size(T, n - 1) + SumBucketSizes(T, n - 1)

\* C1: in every reachable state no two distinct stored entries of a table
\* have keys that the equality predicate reports equal.
C1_Uniqueness ==
    \A t \in Tables :
        LET F == Flatten(tables[t].buckets_)
        IN \A i, j \in 1..Len(F) : i # j => ~equal_(F[i].first, F[j].first)

\* an insertion of a stored key was turned down in a table of two entries
C1_Witness ==
    /\ last.op \in {"insert", "emplace", "operator[]"}
    /\ last.out = "ok"
    /\ ~last.flag
    /\ size(tables["a"]) = 2

\* C2: in every reachable state size() equals the sum of bucket_size(i) over
\* all bucket indices and the number of entries a traversal from begin() to
\* end() visits.
C2_SizeConsistency ==
    \A t \in Tables :
        /\ size(tables[t]) = SumBucketSizes(tables[t], bucket_count(tables[t]))
        /\ size(tables[t]) = Len(Traversal(tables[t]))

\* a table of two entries has just been moved into another
C2_Witness ==
    /\ last.op \in {"move", "move="}
    /\ last.t # last.s
    /\ size(tables[last.t]) = 2
    /\ size(tables[last.s]) = 0

\* C3: after every call every stored entry with key k lies in the bucket
\* with index hash(k) mod bucket_count() of its table.
C3_Placement ==
    \A t \in Tables :
        \A i \in 0..(bucket_count(tables[t]) - 1) :
            \A p \in 1..bucket_size(tables[t], i) :
                bucket(tables[t], tables[t].buckets_[i + 1][p].first) = i

\* rehash(2) has just re-placed two entries
C3_Witness ==
    /\ last.op = "rehash"
    /\ last.n = 2
    /\ size(tables["a"]) = 2
    /\ bucket_count(tables["a"]) = 2

Pairs(T) == { Flatten(T.buckets_)[i] : i \in 1..Len(Flatten(T.buckets_)) }

\* find(k) on T reaches an entry, and that entry carries the value v
FindYields(T, k, v) ==
    /\ ~NoBuckets(T)
    /\ ~IterEq(T, find(T, k), end(T))
    /\ Deref(T, find(T, k)) = [first |-> k, second |-> v]

\* find(k) on T returns end()
FindEnds(T, k) == ~NoBuckets(T) /\ IterEq(T, find(T, k), end(T))

\* The step is the call op on table "a"; its arguments are those the call
\* record of the new state carries.
DidInsert == last'.op = "insert" /\ Insert("a", last'.k, last'.v)

DidEmplace == last'.op = "emplace" /\ Emplace("a", last'.k, last'.v)

DidIndex == last'.op = "operator[]" /\ Index("a", last'.k)

DidErase == last'.op = "erase" /\ Erase("a", last'.k)

DidRehash == last'.op = "rehash" /\ Rehash("a", last'.n)

DidMaxLoadFactor ==
    last'.op = "max_load_factor" /\ MaxLoadFactor("a", tables'["a"].max_load_factor_)

DidAt == last'.op = "at" /\ At("a", last'.k)

DidLookup ==
    \/ last'.op = "find" /\ Find("a", last'.k)
    \/ last'.op = "contains" /\ Contains("a", last'.k)
    \/ last'.op = "count" /\ Count("a", last'.k)

\* the outcome of insert(k, v) or emplace(k, v), as C4 states it
FirstWriteWon(T, T2, k, v) ==
    /\ last'.out = "ok"
    /\ FindYields(T2, k, IF Stored(T, k) THEN ValueOf(T, k) ELSE v)
    /\ Stored(T, k) =>
          /\ ~last'.flag
          /\ IterEq(T2, last'.it, find(T2, k))
          /\ Pairs(T2) = Pairs(T)
          /\ size(T2) = size(T)

\* C4: insert(k, v) or emplace(k, v) followed by find(k) yields the value k
\* was first given: v when k was absent, and when k was present the value it
\* had, with a cursor to the existing entry, flag not-inserted and no stored
\* pair changed.
C4_FirstWriteWins ==
    [][(DidInsert \/ DidEmplace) =>
          FirstWriteWon(tables["a"], tables'["a"], last'.k, last'.v)]_vars

\* C4 for calls on a table that has a bucket
C4_FirstWriteWinsWithBuckets ==
    [][((DidInsert \/ DidEmplace) /\ ~NoBuckets(tables["a"])) =>
          FirstWriteWon(tables["a"], tables'["a"], last'.k, last'.v)]_vars

\* the outcome of insert(k, v) of an absent key, as C5 states it
InsertedAbsent(T, T2, k, v) ==
    /\ last'.out = "ok"
    /\ last'.flag
    /\ ~NoBuckets(T2)
    /\ Deref(T2, last'.it) = [first |-> k, second |-> v]
    /\ size(T2) = size(T) + 1
    /\ LET b == T2.buckets_[bucket(T2, k) + 1]
       IN b # <<>> /\ b[Len(b)] = [first |-> k, second |-> v]
    /\ \A j \in Keys \ {k} :
          /\ Stored(T2, j) <=> Stored(T, j)
          /\ Stored(T, j) => ValueOf(T2, j) = ValueOf(T, j)

\* C5: insert(k, v) of an absent key returns inserted and a cursor at (k, v),
\* increases size() by exactly 1, appends the entry at the tail of bucket
\* hash(k) mod bucket_count(), and leaves every other key as it was.
C5_InsertAbsent ==
    [][(DidInsert /\ ~Stored(tables["a"], last'.k)) =>
          InsertedAbsent(tables["a"], tables'["a"], last'.k, last'.v)]_vars

\* C5 for calls on a table that has a bucket
C5_InsertAbsentWithBuckets ==
    [][(DidInsert /\ ~Stored(tables["a"], last'.k) /\ ~NoBuckets(tables["a"])) =>
          InsertedAbsent(tables["a"], tables'["a"], last'.k, last'.v)]_vars

\* the outcome of erase(k), as C6 states it
Erased(T, T2, k) ==
    /\ last'.out = "ok"
    /\ IF Stored(T, k)
       THEN /\ last'.n = 1
            /\ size(T2) = size(T) - 1
            /\ FindEnds(T2, k)
            /\ ~contains(T2, k)
       ELSE /\ last'.n = 0
            /\ T2 = T

\* C6: erase(k) of a present key returns 1, decreases size() by exactly 1
\* and makes find(k) return end(); erase(k) of an absent key returns 0 and
\* leaves size() and every stored entry unchanged.
C6_Erase ==
    [][DidErase => Erased(tables["a"], tables'["a"], last'.k)]_vars

\* C6 for calls on a table that has a bucket
C6_EraseWithBuckets ==
    [][(DidErase /\ ~NoBuckets(tables["a"])) =>
          Erased(tables["a"], tables'["a"], last'.k)]_vars

\* every pair of T is a pair of T2 and find on T2 reaches it
Preserved(T, T2) ==
    \A k \in Keys : Stored(T, k) => FindYields(T2, k, ValueOf(T, k))

\* C7: rehash(n), n >= 1, keeps the set of (key, value) pairs and size(),
\* leaves bucket_count() = n and every key found with its value; a rehash
\* triggered by the growth check keeps the pairs as well.
C7_RehashPreserves ==
    [][/\ (DidRehash /\ last'.n >= 1) =>
            /\ last'.out = "ok"
            /\ Pairs(tables'["a"]) = Pairs(tables["a"])
            /\ size(tables'["a"]) = size(tables["a"])
            /\ bucket_count(tables'["a"]) = last'.n
            /\ Preserved(tables["a"], tables'["a"])
       /\ (DidMaxLoadFactor /\ bucket_count(tables'["a"]) # bucket_count(tables["a"])) =>
            /\ Pairs(tables'["a"]) = Pairs(tables["a"])
            /\ size(tables'["a"]) = size(tables["a"])
            /\ Preserved(tables["a"], tables'["a"])
       /\ ((DidInsert \/ DidEmplace \/ DidIndex)
             /\ bucket_count(tables'["a"]) # bucket_count(tables["a"])) =>
            /\ Pairs(tables["a"]) \subseteq Pairs(tables'["a"])
            /\ Pairs(tables'["a"]) \ Pairs(tables["a"])
                  \subseteq {[first |-> last'.k, second |-> last'.v]}
            /\ Preserved(tables["a"], tables'["a"])]_vars

\* rehash(1) has just gathered two entries from two buckets into one
C7_Witness ==
    /\ last.op = "rehash"
    /\ last.out = "ok"
    /\ last.c0 = 2
    /\ last.n = 1
    /\ bucket_count(tables["a"]) = 1
    /\ size(tables["a"]) = 2

\* C8: on a non-empty table whose load factor exceeds max_load_factor(), the
\* next insert leaves bucket_count() at least double what it was, and the
\* load factor after it is at most the load factor before it.
C8_LoadFactorTrigger ==
    [][(DidInsert /\ size(tables["a"]) > 0 /\ LoadExceeds(tables["a"])) =>
          /\ last'.out = "ok"
          /\ bucket_count(tables'["a"]) >= 2 * bucket_count(tables["a"])
          /\ size(tables'["a"]) * bucket_count(tables["a"])
                <= size(tables["a"]) * bucket_count(tables'["a"])]_vars

\* an insert has just doubled the bucket count of a non-empty table
C8_Witness ==
    /\ last.op = "insert"
    /\ last.out = "ok"
    /\ last.c0 = 1
    /\ bucket_count(tables["a"]) = 2
    /\ size(tables["a"]) >= 1

\* every key stored in "a" is found by find, with the value it was inserted with
AllFound ==
    \A k \in ScenarioKeys :
        Stored(tables["a"], k) => FindYields(tables["a"], k, ScenarioValue(k))

\* C9, the rehash placed in the 17th insert: once 17 distinct keys are in
\* the table that started with 16 buckets and max_load_factor 1.0,
\* bucket_count() is greater than 16, size() is 17 and every key is found
\* with its value.
C9_GrowthBy17 ==
    size(tables["a"]) = DEFAULT_BUCKET_COUNT + 1 =>
        /\ bucket_count(tables["a"]) > DEFAULT_BUCKET_COUNT
        /\ AllFound

\* C9, the rehash placed in the 18th insert: from 16 empty buckets and
\* max_load_factor 1.0, every insert of a new key succeeds and every stored
\* key is found with its value; up to and including the 17th insert
\* bucket_count() stays 16 (size() is 17 then), and the 18th insert is the
\* first to rehash, doubling bucket_count() to 32.
C9_GrowthBy18 ==
    /\ ub = "none"
    /\ size(tables["a"]) = Cardinality(ScenarioKeys \ Remaining)
    /\ AllFound
    /\ size(tables["a"]) <= DEFAULT_BUCKET_COUNT + 1 =>
          bucket_count(tables["a"]) = DEFAULT_BUCKET_COUNT
    /\ size(tables["a"]) = DEFAULT_BUCKET_COUNT + 2 =>
          bucket_count(tables["a"]) = 2 * DEFAULT_BUCKET_COUNT

\* the 17th insert has returned
C9_Witness ==
    /\ last.op = "insert"
    /\ last.out = "ok"
    /\ last.flag
    /\ size(tables["a"]) = DEFAULT_BUCKET_COUNT + 1

\* the outcome of at(k), as C10 states it
AtOutcome(T, k) ==
    /\ tables' = tables
    /\ IF Stored(T, k)
       THEN last'.out = "ok" /\ last'.v = ValueOf(T, k)
       ELSE last'.out = "KeyNotFound"

\* find, contains and count answer an absent key with end(), false and 0
SentinelOutcome(T, k) ==
    /\ tables' = tables
    /\ last'.out = "ok"
    /\ ~Stored(T, k) =>
          /\ last'.op = "find" => IterEq(T, last'.it, end(T))
          /\ last'.op = "contains" => ~last'.flag
          /\ last'.op = "count" => last'.n = 0

\* C10: at(k) returns the value stored for k when k is present and fails
\* with std::out_of_range when k is absent, the table unchanged either way;
\* find, contains and count report absence without an error.
C10_At ==
    [][/\ DidAt => AtOutcome(tables["a"], last'.k)
       /\ DidLookup => SentinelOutcome(tables["a"], last'.k)]_vars

\* C10 for calls on a table that has a bucket
C10_AtWithBuckets ==
    [][~NoBuckets(tables["a"]) =>
          /\ DidAt => AtOutcome(tables["a"], last'.k)
          /\ DidLookup => SentinelOutcome(tables["a"], last'.k)]_vars

\* what find(k), contains(k) and count(k) return on T, as C11 states it
LookupOutcome(T, k) ==
    /\ tables' = tables
    /\ ub' = ub
    /\ last'.out = "ok"
    /\ last'.op = "find" =>
          IF Stored(T, k)
          THEN /\ ~IterEq(T, last'.it, end(T))
               /\ Deref(T, last'.it) = [first |-> k, second |-> ValueOf(T, k)]
          ELSE IterEq(T, last'.it, end(T))
    /\ last'.op = "contains" =>
          /\ last'.flag <=> ~IterEq(T, find(T, k), end(T))
          /\ last'.flag <=> Stored(T, k)
    /\ last'.op = "count" =>
          last'.n = IF contains(T, k) /\ Stored(T, k) THEN 1 ELSE 0

\* C11: on a table with bucket_count() >= 1, find(k) returns a cursor at the
\* entry with key k when k is stored and end() otherwise, contains(k) is
\* true exactly when find(k) is not end(), count(k) is 1 exactly when
\* contains(k) and 0 otherwise, and none of the three changes the table.
C11_Lookup ==
    [][(DidLookup /\ bucket_count(tables["a"]) >= 1) =>
          LookupOutcome(tables["a"], last'.k)]_vars

\* find has just reached the second entry of a bucket
C11_Witness ==
    /\ last.op = "find"
    /\ last.out = "ok"
    /\ last.it.list_it_[2] = 2
    /\ Stored(tables["a"], last.k)

\* the outcome of operator[](k), as C12 states it: that of insert(k, T{})
\* followed by access to the stored value
IndexOutcome(T, T2, k) ==
    /\ last'.out = "ok"
    /\ ~NoBuckets(rehash_if_needed(T))
    /\ T2 = insert(T, [first |-> k, second |-> 0]).map
    /\ IF Stored(T, k)
       THEN /\ last'.v = ValueOf(T, k)
            /\ ValueOf(T2, k) = ValueOf(T, k)
            /\ size(T2) = size(T)
       ELSE /\ last'.v = 0
            /\ FindYields(T2, k, 0)
            /\ size(T2) = size(T) + 1

\* C12: operator[](k) is insert(k, T{}) followed by access to the stored
\* value: a missing key is inserted with the default value and size() grows
\* by 1; a present key keeps its value, which is the one returned, and
\* size() is unchanged.
C12_Index ==
    [][DidIndex => IndexOutcome(tables["a"], tables'["a"], last'.k)]_vars

\* C12 for calls on a table that has a bucket
C12_IndexWithBuckets ==
    [][(DidIndex /\ ~NoBuckets(tables["a"])) =>
          IndexOutcome(tables["a"], tables'["a"], last'.k)]_vars

\* the calls that change the table they are made on
Mutators == {"insert", "emplace", "operator[]", "operator[]=", "erase", "clear",
             "rehash", "max_load_factor", "list="}

\* The step is a copy construction or a copy assignment of table last'.t
\* from another table last'.s.
DidCopy ==
    \/ last'.op = "copy" /\ CopyConstruct(last'.t, last'.s)
    \/ last'.op = "copy=" /\ last'.t # last'.s /\ CopyAssign(last'.t, last'.s)

\* C13: a copy (construction or assignment) of C from S holds exactly the
\* (key, value) pairs, the size and the max_load_factor of S and leaves S as
\* it was; a later call that changes one of two tables (insert, emplace,
\* operator[], a value update, erase, clear, rehash, max_load_factor, list
\* assignment) leaves the size, the bucket_count and the entries of the
\* other unchanged.
C13_DeepCopy ==
    [][/\ DidCopy =>
            /\ last'.out = "ok"
            /\ Pairs(tables'[last'.t]) = Pairs(tables[last'.s])
            /\ size(tables'[last'.t]) = size(tables[last'.s])
            /\ tables'[last'.t].max_load_factor_ = tables[last'.s].max_load_factor_
            /\ tables'[last'.s] = tables[last'.s]
       /\ (last'.op \in Mutators /\ last' # last) =>
            \A o \in Tables \ {last'.t} : tables'[o] = tables[o]]_vars

\* a table of two entries has just been copied
C13_Witness ==
    /\ last.op \in {"copy", "copy="}
    /\ last.t # last.s
    /\ last.out = "ok"
    /\ size(tables[last.t]) = 2
    /\ Pairs(tables[last.t]) = Pairs(tables[last.s])

\* the copy has the bucket count of the source and, bucket by bucket, the
\* same sequence of entries
SameLayout(C, S) ==
    /\ bucket_count(C) = bucket_count(S)
    /\ C.buckets_ = S.buckets_

\* C14: the copy (construction or assignment) of every reachable source,
\* also one whose load factor exceeds max_load_factor() after rehash(n) to a
\* small n or after a lowered max_load_factor, has the bucket_count() of the
\* source and in every bucket the same sequence of entries.
C14_CopyLayout ==
    [][DidCopy => SameLayout(tables'[last'.t], tables[last'.s])]_vars

\* C14 for sources whose load factor does not exceed max_load_factor()
C14_CopyLayoutWithinLoad ==
    [][(DidCopy /\ ~LoadExceeds(tables[last'.s])) =>
          SameLayout(tables'[last'.t], tables[last'.s])]_vars

\* The step is a move construction or a move assignment of table last'.t
\* from another table last'.s.
DidMove ==
    \/ last'.op = "move" /\ MoveConstruct(last'.t, last'.s)
    \/ last'.op = "move=" /\ last'.t # last'.s /\ MoveAssign(last'.t, last'.s)

\* C15: after a move (construction or assignment) from S to another table D,
\* D has the buckets of S with their entries in their order, the
\* bucket_count, the size and the max_load_factor S had, and S reports
\* empty() and size() 0.
C15_Move ==
    [][DidMove =>
          /\ last'.out = "ok"
          /\ tables'[last'.t].buckets_ = tables[last'.s].buckets_
          /\ Pairs(tables'[last'.t]) = Pairs(tables[last'.s])
          /\ bucket_count(tables'[last'.t]) = bucket_count(tables[last'.s])
          /\ size(tables'[last'.t]) = size(tables[last'.s])
          /\ tables'[last'.t].max_load_factor_ = tables[last'.s].max_load_factor_
          /\ empty(tables'[last'.s])
          /\ size(tables'[last'.s]) = 0]_vars

\* two entries that share a bucket have just been moved by assignment into
\* a table that had another max_load_factor
C15_Witness ==
    /\ last.op = "move="
    /\ last.t # last.s
    /\ last.out = "ok"
    /\ size(tables[last.t]) = 2
    /\ bucket_count(tables[last.t]) = 1
    /\ tables[last.t].max_load_factor_ = <<1, 2>>
    /\ empty(tables[last.s])

\* table "a" has just been moved from, into "b"
MovedFromA == last.op \in {"move", "move="} /\ last.s = "a" /\ last.t = "b"

\* what a call on an empty table returns
EmptyTableOutcome ==
    /\ ub' = "none"
    /\ last'.op = "find" => last'.out = "ok" /\ IterEq(tables["a"], last'.it, end(tables["a"]))
    /\ last'.op = "contains" => last'.out = "ok" /\ ~last'.flag
    /\ last'.op = "count" => last'.out = "ok" /\ last'.n = 0
    /\ last'.op = "erase" => last'.out = "ok" /\ last'.n = 0
    /\ last'.op = "at" => last'.out = "KeyNotFound"
    /\ last'.op \in {"insert", "emplace"} =>
          /\ last'.out = "ok"
          /\ last'.flag
          /\ size(tables'["a"]) = 1

\* C16: a moved-from table is a valid empty table: begin() == end(), and the
\* next call on it is well defined and behaves as on an empty table: find
\* returns end(), contains false, count 0, erase 0, at raises KeyNotFound
\* and insert succeeds with inserted = true; no call takes an index modulo
\* a bucket count of zero.
C16_MovedFromValid ==
    [][MovedFromA =>
          /\ IterEq(tables["a"], begin(tables["a"]), end(tables["a"]))
          /\ empty(tables["a"])
          /\ last'.op \in {"find", "contains", "count", "erase", "at", "insert", "emplace"}
                => EmptyTableOutcome]_vars

\* C16, the part that needs no bucket index: a moved-from table has size()
\* 0, empty() true and begin() == end()
C16_MovedFromLooksEmpty ==
    MovedFromA =>
        /\ size(tables["a"]) = 0
        /\ empty(tables["a"])
        /\ IterEq(tables["a"], begin(tables["a"]), end(tables["a"]))

\* C17: no reachable state has a table with bucket_count() == 0, and no call
\* has evaluated bucket(key) with zero buckets.
C17_ZeroBucketsGuarded ==
    /\ ub = "none"
    /\ \A t \in Tables : bucket_count(tables[t]) >= 1

\* The step is the call last'.t.swap(last'.s).
DidSwap == last'.op = "swap" /\ Swap(last'.t, last'.s)

\* C18: A.swap(B) gives A the buckets (entries and per-bucket order),
\* bucket_count, size and max_load_factor B had and B those of A; the pairs
\* of the two tables together are the same as before; a second swap
\* restores both tables; A.swap(A) changes nothing.
C18_Swap ==
    [][DidSwap =>
          LET A == last'.t
              B == last'.s
          IN /\ last'.out = "ok"
             /\ tables'[A].buckets_ = tables[B].buckets_
             /\ tables'[B].buckets_ = tables[A].buckets_
             /\ bucket_count(tables'[A]) = bucket_count(tables[B])
             /\ bucket_count(tables'[B]) = bucket_count(tables[A])
             /\ size(tables'[A]) = size(tables[B])
             /\ size(tables'[B]) = size(tables[A])
             /\ tables'[A].max_load_factor_ = tables[B].max_load_factor_
             /\ tables'[B].max_load_factor_ = tables[A].max_load_factor_
             /\ Flatten(tables'[A].buckets_) \o Flatten(tables'[B].buckets_)
                   = Flatten(tables[B].buckets_) \o Flatten(tables[A].buckets_)
             /\ swap(tables', A, B) = tables
             /\ A = B => tables' = tables]_vars

\* tables of two entries and of one entry, with different max_load_factor,
\* have just been swapped
C18_Witness ==
    /\ last.op = "swap"
    /\ last.t # last.s
    /\ size(tables[last.t]) = 2
    /\ size(tables[last.s]) = 1
    /\ tables[last.t].max_load_factor_ # tables[last.s].max_load_factor_

\* ------------------------------------------------- cursors held by a caller
\* An iterator a caller keeps across calls: map_ is the table object it was
\* obtained from, and list_it_ = <<o, lb, lp>> is position lp of the list
\* that is bucket lb of the bucket array table o owns now (the node the
\* std::list iterator points at, or that list's end() when lp is past it).
Cursor(m, it) ==
    [map_ |-> m, bucket_index_ |-> it.bucket_index_, list_it_ |-> <<m>> \o it.list_it_]

\* std::swap(buckets_, other.buckets_) exchanges the arrays of t and s: a
\* list iterator keeps pointing at its node, which the other table owns now
AfterSwap(c, t, s) ==
    [c EXCEPT !.list_it_[1] = IF @ = t THEN s ELSE IF @ = s THEN t ELSE @]

\* an operator== that leaves out map_ == other.map_
cursorEqNoMap(tbls, x, y) ==
    /\ x.bucket_index_ = y.bucket_index_
    /\ \/ x.bucket_index_ = Len(tbls[x.map_].buckets_)
       \/ x.list_it_[2] = y.list_it_[2] /\ x.list_it_[3] = y.list_it_[3]

\* iterator::operator==
CursorEq(tbls, x, y) ==
    /\ x.map_ = y.map_
    /\ x.bucket_index_ = y.bucket_index_
    /\ \/ x.bucket_index_ = Len(tbls[x.map_].buckets_)
       \/ x.list_it_ = y.list_it_

\* iterator::operator*
CursorDeref(tbls, c) ==
    tbls[c.list_it_[1]].buckets_[c.list_it_[2] + 1][c.list_it_[3]]

\* the while loop of iterator::advance on map_'s buckets; ub is TRUE when
\* list_it_ == map_->buckets_[bucket_index_].end() compares iterators of two
\* different lists, which is undefined (an unchecked build answers false
\* and leaves the iterator where it is)
RECURSIVE CursorSkip(_, _)
CursorSkip(tbls, c) ==
    LET M == tbls[c.map_] IN
    IF c.bucket_index_ >= Len(M.buckets_) THEN [ub |-> FALSE, c |-> c]
    ELSE IF c.list_it_[1] # c.map_ \/ c.list_it_[2] # c.bucket_index_
         THEN [ub |-> TRUE, c |-> c]
    ELSE IF c.list_it_[3] # Len(M.buckets_[c.bucket_index_ + 1]) + 1
         THEN [ub |-> FALSE, c |-> c]
    ELSE IF c.bucket_index_ + 1 < Len(M.buckets_)
         THEN CursorSkip(tbls, [c EXCEPT !.bucket_index_ = @ + 1,
                                         !.list_it_ = <<c.map_, c.bucket_index_ + 1, 1>>])
         ELSE CursorSkip(tbls, [c EXCEPT !.bucket_index_ = @ + 1])

\* iterator::advance (operator++)
CursorAdvance(tbls, c) ==
    IF c.bucket_index_ >= Len(tbls[c.map_].buckets_) THEN [ub |-> FALSE, c |-> c]
    ELSE CursorSkip(tbls, [c EXCEPT !.list_it_[3] = @ + 1])

\* the cursor at the entry with key k, obtained from A before A.swap(B), as
\* it is after the swap
SwappedCursor(A, B, k) == AfterSwap(Cursor(A, find(tables[A], k)), A, B)

\* C19: a cursor obtained from A before A.swap(B) and positioned at entry e
\* is after the swap a valid cursor of B: it dereferences to e, compares
\* equal to B.find(key(e)), and advancing it gives the cursor that advancing
\* B.find(key(e)) gives, so that it visits the entries that follow e in B
\* and reaches B.end().
C19_SwapCursor ==
    [][DidSwap =>
          LET A == last'.t
              B == last'.s
          IN \A k \in Keys : Stored(tables[A], k) =>
                LET c == SwappedCursor(A, B, k)
                    f == find(tables'[B], k)
                    r == CursorAdvance(tables', c)
                IN /\ CursorDeref(tables', c) = [first |-> k, second |-> ValueOf(tables[A], k)]
                   /\ CursorEq(tables', c, Cursor(B, f))
                   /\ ~r.ub
                   /\ CursorEq(tables', r.c, Cursor(B, advance(tables'[B], f)))]_vars

\* C19, the part that holds: after A.swap(B) the cursor still dereferences
\* to its entry, and after A.swap(A) it is the cursor A.find gives
C19_SwapCursorDeref ==
    [][DidSwap =>
          LET A == last'.t
              B == last'.s
          IN \A k \in Keys : Stored(tables[A], k) =>
                LET c == SwappedCursor(A, B, k)
                    f == find(tables'[B], k)
                    r == CursorAdvance(tables', c)
                IN /\ CursorDeref(tables', c) = [first |-> k, second |-> ValueOf(tables[A], k)]
                   /\ A = B =>
                        /\ CursorEq(tables', c, Cursor(B, f))
                        /\ ~r.ub
                        /\ CursorEq(tables', r.c, Cursor(B, advance(tables'[B], f)))]_vars

\* The step is the call clear() on table "a".
DidClear == last'.op = "clear" /\ Clear("a")

\* insert(k, v) on the empty table T succeeds
InsertsIntoEmpty(T, k, v) ==
    LET r == insert(T, [first |-> k, second |-> v])
    IN /\ r.inserted
       /\ size(r.map) = 1
       /\ FindYields(r.map, k, v)

\* C20: clear() leaves every bucket empty, size() 0, empty() true,
\* begin() == end() and every key absent, with bucket_count() and
\* max_load_factor() as they were; the table takes inserts afterwards as it
\* did before (every insert into it succeeds when it has a bucket).
C20_Clear ==
    [][DidClear =>
          LET T == tables["a"]
              T2 == tables'["a"]
          IN /\ last'.out = "ok"
             /\ ub' = "none"
             /\ \A i \in 0..(bucket_count(T2) - 1) : bucket_size(T2, i) = 0
             /\ size(T2) = 0
             /\ empty(T2)
             /\ IterEq(T2, begin(T2), end(T2))
             /\ \A k \in Keys : ~Stored(T2, k) /\ (~NoBuckets(T2) => FindEnds(T2, k))
             /\ bucket_count(T2) = bucket_count(T)
             /\ T2.max_load_factor_ = T.max_load_factor_
             /\ tables'["b"] = tables["b"]
             /\ InsertUB(T2) <=> InsertUB(T)
             /\ ~InsertUB(T2) => \A k \in Keys, v \in Vals : InsertsIntoEmpty(T2, k, v)]_vars

\* clear() has just been called on a table of two buckets with
\* max_load_factor 0.5
C20_Witness ==
    /\ last.op = "clear"
    /\ last.out = "ok"
    /\ last.c0 = 2
    /\ bucket_count(tables["a"]) = 2
    /\ tables["a"].max_load_factor_ = <<1, 2>>
    /\ empty(tables["a"])

\* the list lst without its entries of key k, the others in their order
RECURSIVE Without(_, _)
Without(lst, k) ==
    IF lst = <<>> THEN <<>>
    ELSE (IF equal_(Head(lst).first, k) THEN <<>> ELSE <<Head(lst)>>) \o Without(Tail(lst), k)

\* C21: erase(k) never changes bucket_count() or max_load_factor() and never
\* rehashes; it removes at most the one entry of key k, and every bucket keeps
\* its other entries with their values and in their relative order.
C21_EraseFrame ==
    [][DidErase =>
          LET T == tables["a"]
              T2 == tables'["a"]
          IN /\ bucket_count(T2) = bucket_count(T)
             /\ T2.max_load_factor_ = T.max_load_factor_
             /\ Len(Flatten(T2.buckets_)) >= Len(Flatten(T.buckets_)) - 1
             /\ size(T2) >= size(T) - 1
             /\ \A i \in 0..(bucket_count(T) - 1) :
                   T2.buckets_[i + 1] = Without(T.buckets_[i + 1], last'.k)
             /\ tables'["b"] = tables["b"]]_vars

\* erase(1) has just removed one of the three entries of the only bucket:
\* the entries of keys 3 and 2 are left, in that order
C21_Witness ==
    /\ last.op = "erase"
    /\ last.out = "ok"
    /\ last.n = 1
    /\ last.k = 1
    /\ bucket_count(tables["a"]) = 1
    /\ bucket_size(tables["a"], 0) = 2
    /\ tables["a"].buckets_[1][1].first = 3
    /\ tables["a"].buckets_[1][2].first = 2
    /\ tables["a"].buckets_[1][1].second # tables["a"].buckets_[1][2].second

\* The step is the construction of table "a" from the initializer list and
\* with the bucket count that the call record of the new state carries.
DidListConstruct == last'.op = "list" /\ ListConstruct("a", last'.init, last'.n)

KeysOf(init) == { init[i].first : i \in 1..Len(init) }

\* the value of the first pair of init that has the key k
RECURSIVE FirstOf(_, _)
FirstOf(init, k) ==
    IF equal_(Head(init).first, k) THEN Head(init).second ELSE FirstOf(Tail(init), k)

\* T2 is the map of the first occurrences of init
ListBuilt(init, T2) ==
    /\ last'.out = "ok"
    /\ \A k \in Keys : Stored(T2, k) <=> k \in KeysOf(init)
    /\ \A k \in KeysOf(init) : FindYields(T2, k, FirstOf(init, k))
    /\ size(T2) = Cardinality(KeysOf(init))
    /\ Len(Flatten(T2.buckets_)) = Cardinality(KeysOf(init))

\* C22: constructing a table from a sequence of pairs yields the map that
\* sends each distinct key of the sequence to the value of its first
\* occurrence; later duplicates change nothing and size() is the number of
\* distinct keys.
C22_ListCtor ==
    [][DidListConstruct => ListBuilt(last'.init, tables'["a"])]_vars

\* C22 for constructions with a bucket count of at least 1 or an empty list
C22_ListCtorWithBuckets ==
    [][(DidListConstruct /\ (last'.n >= 1 \/ last'.init = <<>>)) =>
          ListBuilt(last'.init, tables'["a"])]_vars

\* a list of three pairs with a duplicate of its first key has been made a
\* table of two entries, the bucket array having grown on the way
C22_Witness ==
    /\ last.op = "list"
    /\ last.out = "ok"
    /\ Len(last.init) = 3
    /\ last.init[1].first = last.init[3].first
    /\ last.init[1].second # last.init[3].second
    /\ last.n = 1
    /\ bucket_count(tables["a"]) = 2
    /\ size(tables["a"]) = 2

\* the stamps of the list grow from head to tail: of any two entries the one
\* inserted earlier comes first
RECURSIVE OldestFirst(_)
OldestFirst(lst) ==
    IF Len(lst) <= 1 THEN TRUE
    ELSE lst[1].second < lst[2].second /\ OldestFirst(Tail(lst))

AllOldestFirst(T) ==
    \A i \in 0..(bucket_count(T) - 1) : OldestFirst(T.buckets_[i + 1])

\* a traversal from begin() yields bucket 0's list, then bucket 1's, and so on
InBucketOrder(T) == Traversal(T) = Flatten(T.buckets_)

\* the step leaves the bucket array in place
NoRehashStep ==
    /\ last'.op # "rehash"
    /\ bucket_count(tables'["a"]) = bucket_count(tables["a"])

\* the list new is the list old as it was, or with one entry appended at its
\* tail, or with one entry taken out
KeepsListOrder(old, new) ==
    \/ new = old
    \/ Len(new) = Len(old) + 1 /\ SubSeq(new, 1, Len(old)) = old
    \/ \E p \in 1..Len(old) : new = RemoveAt(old, p)

\* C23 as stated: in every reachable state, states after a rehash included,
\* a traversal from begin() visits the buckets in increasing index order and
\* the entries of each bucket oldest surviving insertion first.
C23_TraversalOrder ==
    InBucketOrder(tables["a"]) /\ AllOldestFirst(tables["a"])

\* C23 as the code has it: in every reachable state a traversal from begin()
\* visits the buckets in increasing index order and each bucket's entries in
\* the order of its list; a step that does not rehash leaves each list as it
\* was but for one entry appended at the tail or one entry removed, so that
\* lists that were oldest-first still are.
C23_TraversalOrderBetweenRehashes ==
    /\ [](InBucketOrder(tables["a"]) /\ InBucketOrder(tables["b"]))
    /\ [][NoRehashStep =>
             /\ \A i \in 0..(bucket_count(tables["a"]) - 1) :
                   KeepsListOrder(tables["a"].buckets_[i + 1], tables'["a"].buckets_[i + 1])
             /\ AllOldestFirst(tables["a"]) => AllOldestFirst(tables'["a"])]_vars

\* an insert that did not rehash has appended a second entry to bucket 0 of
\* two buckets, the table holding three entries, each list oldest first
C23_Witness ==
    /\ last.op = "insert"
    /\ last.out = "ok"
    /\ last.flag
    /\ last.c0 = 2
    /\ bucket_count(tables["a"]) = 2
    /\ size(tables["a"]) = 3
    /\ bucket_size(tables["a"], 0) = 2
    /\ AllOldestFirst(tables["a"])
    /\ tables["a"].buckets_[1][2].first = last.k

\* the iterator is at an entry of T: operator* has something to return
AtEntry(T, it) ==
    /\ it.list_it_[1] \in 0..(Len(T.buckets_) - 1)
    /\ it.list_it_[2] \in 1..Len(T.buckets_[it.list_it_[1] + 1])

\* for (it = begin(); it != end(); ++it) use(*it), run for at most fuel
\* rounds: whether the loop left through it == end(), and the entries it
\* dereferenced, one per advance
RECURSIVE TraversalLoop(_, _, _, _)
TraversalLoop(T, it, seen, fuel) ==
    IF IterEq(T, it, end(T)) THEN [ended |-> TRUE, seen |-> seen]
    ELSE IF fuel = 0 \/ ~AtEntry(T, it) THEN [ended |-> FALSE, seen |-> seen]
    ELSE TraversalLoop(T, advance(T, it), Append(seen, Deref(T, it)), fuel - 1)

\* the lowest index of a non-empty bucket of a table that has an entry
LowestNonEmpty(T) ==
    CHOOSE i \in 0..(Len(T.buckets_) - 1) :
        /\ T.buckets_[i + 1] # <<>>
        /\ \A j \in 0..(i - 1) : T.buckets_[j + 1] = <<>>

\* C24: on an unmodified table the loop "it = begin(); while it != end():
\* deref, advance" ends after exactly size() advances, having dereferenced
\* every stored entry exactly once and nothing else; begin() == end() iff
\* the table is empty, and otherwise begin() is at the first entry of the
\* lowest-index non-empty bucket.
C24_LoopTerminates ==
    \A t \in Tables :
        LET T == tables[t]
            r == TraversalLoop(T, begin(T), <<>>, size(T) + 1)
        IN /\ r.ended
           /\ Len(r.seen) = size(T)
           /\ \A i, j \in 1..Len(r.seen) : i # j => r.seen[i] # r.seen[j]
           /\ { r.seen[i] : i \in 1..Len(r.seen) } = Pairs(T)
           /\ IterEq(T, begin(T), end(T)) <=> empty(T)
           /\ ~empty(T) => begin(T) = Iter(LowestNonEmpty(T), LowestNonEmpty(T), 1)

\* three entries in two buckets: the loop crosses from bucket 0 to bucket 1
C24_Witness ==
    /\ bucket_count(tables["a"]) = 2
    /\ bucket_size(tables["a"], 0) = 2
    /\ bucket_size(tables["a"], 1) = 1
    /\ size(tables["a"]) = 3
    /\ TraversalLoop(tables["a"], begin(tables["a"]), <<>>, 4).ended

\* iterator::operator!=
CursorNe(tbls, x, y) == ~CursorEq(tbls, x, y)

\* the cursors a caller can hold on table m in the current state: end(),
\* one at each entry, and those that advance has taken from an entry to the
\* end (their list_it_ is the end() of the last list they walked)
EntryCursors(m) ==
    UNION { { Cursor(m, Iter(b, b, p)) : p \in 1..bucket_size(tables[m], b) } :
              b \in 0..(bucket_count(tables[m]) - 1) }

ValidCursors(m) ==
    {Cursor(m, end(tables[m]))}
      \cup EntryCursors(m)
      \cup { CursorAdvance(tables, c).c : c \in EntryCursors(m) }

IsEnd(c) == c.bucket_index_ = bucket_count(tables[c.map_])

\* equality as the specification words it
SameCursor(x, y) ==
    /\ x.map_ = y.map_
    /\ \/ IsEnd(x) /\ IsEnd(y)
       \/ /\ ~IsEnd(x)
          /\ ~IsEnd(y)
          /\ x.bucket_index_ = y.bucket_index_
          /\ x.list_it_[3] = y.list_it_[3]

afterEraseInArray(c, tbls, t, key) == c

\* lst.erase(it) in t.erase(key) unlinks one node of a std::list. An
\* iterator at another node keeps pointing at that node, which is one
\* position nearer the head when the erased node came before it.
AfterErase(c, tbls, t, key) ==
    LET idx == bucket(tbls[t], key)
        p == Scan(tbls[t].buckets_[idx + 1], key)
    IN IF c.list_it_[1] = t /\ c.list_it_[2] = idx /\ p # 0 /\ c.list_it_[3] > p
       THEN [c EXCEPT !.list_it_[3] = @ - 1]
       ELSE c

\* list_it_ is at a node of a list of the table that owns it now
CursorAtEntry(tbls, c) ==
    /\ c.list_it_[1] \in Tables
    /\ c.list_it_[2] \in 0..(Len(tbls[c.list_it_[1]].buckets_) - 1)
    /\ c.list_it_[3] \in 1..Len(tbls[c.list_it_[1]].buckets_[c.list_it_[2] + 1])

\* for (; c != end(); ++c) use(*c), run for at most fuel rounds from the
\* cursor c: whether the loop left through c == end(), and the entries seen
RECURSIVE CursorLoop(_, _, _, _)
CursorLoop(tbls, c, seen, fuel) ==
    IF CursorEq(tbls, c, Cursor(c.map_, end(tbls[c.map_])))
    THEN [ended |-> TRUE, seen |-> seen]
    ELSE IF fuel = 0 \/ ~CursorAtEntry(tbls, c) \/ CursorAdvance(tbls, c).ub
    THEN [ended |-> FALSE, seen |-> seen]
    ELSE CursorLoop(tbls, CursorAdvance(tbls, c).c,
                    Append(seen, CursorDeref(tbls, c)), fuel - 1)

\* the traversal of T from the entry of key y on
TraversalFrom(T, y) ==
    LET Tr == Traversal(T)
    IN SubSeq(Tr, CHOOSE i \in 1..Len(Tr) : Tr[i].first = y, Len(Tr))

\* the cursor c2 is a valid cursor of table "a" at the entry of key y
StillAt(c2, y) ==
    LET T2 == tables'["a"]
        r == CursorLoop(tables', c2, <<>>, size(T2) + 1)
    IN /\ CursorAtEntry(tables', c2)
       /\ CursorDeref(tables', c2) = [first |-> y, second |-> ValueOf(T2, y)]
       /\ CursorEq(tables', c2, Cursor("a", find(T2, y)))
       /\ r.ended
       /\ r.seen = TraversalFrom(T2, y)

\* C26: a cursor at entry Y stays valid across an insert that does not
\* rehash and across an erase of another entry, of Y's bucket or of another
\* one: it still dereferences to Y with Y's current value, equals
\* find(key(Y)), and advancing it visits exactly the entries that follow Y
\* in the current traversal order and ends at end().
C26_CursorStability ==
    [][/\ (DidErase /\ last'.out = "ok") =>
            \A y \in ChainKeys \ {last'.k} : Stored(tables["a"], y) =>
                StillAt(AfterErase(Cursor("a", find(tables["a"], y)), tables, "a", last'.k), y)
       /\ ((DidInsert \/ DidEmplace) /\ last'.out = "ok"
             /\ bucket_count(tables'["a"]) = bucket_count(tables["a"])) =>
            \A y \in ChainKeys : Stored(tables["a"], y) =>
                StillAt(Cursor("a", find(tables["a"], y)), y)]_vars

\* erase(3) has just removed one of the three entries of the only bucket,
\* where cursors were at the entries of keys 1 and 2, now the two left
C26_Witness ==
    /\ last.op = "erase"
    /\ last.out = "ok"
    /\ last.n = 1
    /\ last.k = 3
    /\ bucket_count(tables["a"]) = 1
    /\ bucket_size(tables["a"], 0) = 2
    /\ tables["a"].buckets_[1][1].first = 1
    /\ tables["a"].buckets_[1][2].first = 2

\* a rehash that relinks the nodes into the new lists instead of making new
\* ones: an iterator taken before it still points at a node
afterRehashKeepsNodes(c, t) == c

\* t.rehash(n) push_backs every pair into a list of new_buckets, a new node
\* each, and buckets_.swap(new_buckets) leaves the old array to be destroyed
\* with the lists and nodes it holds: a list iterator taken before it points
\* into that destroyed array, owned by no table
AfterRehash(c, t) ==
    IF c.list_it_[1] = t THEN [c EXCEPT !.list_it_[1] = "destroyed"] ELSE c

\* rehash_if_needed() on the table T of object t, as a cursor lives it
AfterGrowthCheck(c, T, t) == IF LoadExceeds(T) THEN AfterRehash(c, t) ELSE c

\* The step is a call on table "a" whose growth check doubled the bucket
\* array.
GrowthStep ==
    /\ DidInsert \/ DidEmplace \/ DidIndex \/ DidMaxLoadFactor
    /\ last'.out = "ok"
    /\ bucket_count(tables'["a"]) # bucket_count(tables["a"])

\* what the call of the step has made of the cursor c taken before it:
\* rehash(n) itself, or the growth check on the table as the call finds it
\* (max_load_factor(ml) stores ml first)
AcrossRehash(c) ==
    IF last'.op = "rehash" THEN AfterRehash(c, "a")
    ELSE IF last'.op = "max_load_factor"
    THEN AfterGrowthCheck(c, [tables["a"] EXCEPT !.max_load_factor_ =
                                 tables'["a"].max_load_factor_], "a")
    ELSE AfterGrowthCheck(c, tables["a"], "a")

EntryIters(T) ==
    UNION { { Iter(b, b, p) : p \in 1..bucket_size(T, b) } :
              b \in 0..(bucket_count(T) - 1) }

\* the buckets of index above b that hold an entry
LaterNonEmpty(T, b) ==
    { j \in (b + 1)..(bucket_count(T) - 1) : T.buckets_[j + 1] # <<>> }

\* where the specification sends a cursor at position p of bucket b
NextPosition(T, b, p) ==
    IF p < bucket_size(T, b) THEN Iter(b, b, p + 1)
    ELSE IF LaterNonEmpty(T, b) # {}
    THEN LET j == CHOOSE j \in LaterNonEmpty(T, b) : \A i \in LaterNonEmpty(T, b) : j <= i
         IN Iter(j, j, 1)
    ELSE end(T)

\* C28: advance() on an end cursor is a no-op, the cursor still equals
\* end(); on a cursor at an entry it moves to the next entry of the same
\* bucket if there is one, otherwise to the first entry of the next
\* non-empty bucket of higher index, otherwise to end; after advance a
\* cursor is never in an empty bucket or past the last entry of a bucket.
C28_Advance ==
    \A t \in Tables :
        LET T == tables[t] IN
        /\ advance(T, end(T)) = end(T)
        /\ \A it \in EntryIters(T) :
              LET nx == advance(T, it) IN
              /\ IterEq(T, nx, NextPosition(T, it.bucket_index_, it.list_it_[2]))
              /\ IterEq(T, nx, end(T)) \/ (nx \in EntryIters(T))
              /\ IterEq(T, nx, end(T)) => IterEq(T, advance(T, nx), end(T))

\* sixteen buckets hold seventeen entries: one bucket has two of them, and
\* an empty bucket lies between two that are not empty
C28_Witness ==
    /\ bucket_count(tables["a"]) = DEFAULT_BUCKET_COUNT
    /\ size(tables["a"]) = DEFAULT_BUCKET_COUNT + 1
    /\ \E b \in 0..(DEFAULT_BUCKET_COUNT - 1) : bucket_size(tables["a"], b) = 2
    /\ \E b \in 1..(DEFAULT_BUCKET_COUNT - 2) :
          /\ bucket_size(tables["a"], b) = 0
          /\ bucket_size(tables["a"], b - 1) > 0
          /\ LaterNonEmpty(tables["a"], b) # {}

\* size() / bucket_count() is strictly greater than max_load_factor()
StrictlyOver(T) ==
    /\ bucket_count(T) > 0
    /\ size(T) * T.max_load_factor_[2] > T.max_load_factor_[1] * bucket_count(T)

\* the growth check found T and left T2: the bucket count changed iff the
\* load factor was strictly over the threshold, and then it doubled
GrowthRule(T, T2) ==
    /\ bucket_count(T2) # bucket_count(T) <=> StrictlyOver(T)
    /\ StrictlyOver(T) => bucket_count(T2) = 2 * bucket_count(T)

\* C29: the growth check at the start of insert, emplace and operator[] and
\* at the end of max_load_factor(ml) changes bucket_count() iff
\* size()/bucket_count() is strictly greater than max_load_factor() at that
\* moment, and then to exactly twice its value, once, whatever the load
\* factor is afterwards; max_load_factor(ml) always stores ml and never
\* changes the stored pairs.
C29_GrowthRule ==
    [][/\ last'.op \in {"insert", "emplace", "operator[]"} =>
            GrowthRule(tables["a"], tables'["a"])
       /\ \A ml \in MLFs : (last'.op = "max_load_factor" /\ GrowingMaxLoadFactor(ml)) =>
            /\ tables'["a"].max_load_factor_ = ml
            /\ GrowthRule([tables["a"] EXCEPT !.max_load_factor_ = ml], tables'["a"])
            /\ Pairs(tables'["a"]) = Pairs(tables["a"])
            /\ size(tables'["a"]) = size(tables["a"])
            /\ Len(Flatten(tables'["a"].buckets_)) = Len(Flatten(tables["a"].buckets_))]_vars

\* max_load_factor(0.5) has just doubled two buckets of three entries to
\* four, once, and the load factor 3/4 is still over the threshold
C29_Witness ==
    /\ last.op = "max_load_factor"
    /\ last.c0 = 2
    /\ bucket_count(tables["a"]) = 4
    /\ size(tables["a"]) = 3
    /\ tables["a"].max_load_factor_ = <<1, 2>>
    /\ StrictlyOver(tables["a"])

\* the place of the entry of key k in the sequence of entries kvs
PlaceIn(kvs, k) == CHOOSE i \in 1..Len(kvs) : kvs[i].first = k

\* C30: rehash(n) is a stable re-bucketing: of any two entries that land in
\* the same new bucket, the one that came earlier in the traversal before
\* the rehash (old bucket 0 in its list order, then old bucket 1, and so on)
\* comes earlier in the new bucket.
C30_StableRebucketing ==
    [][DidRehash =>
          LET Before == Traversal(tables["a"])
              T2 == tables'["a"]
          IN \A i \in 0..(bucket_count(T2) - 1) :
                \A p, q \in 1..bucket_size(T2, i) :
                   p < q => PlaceIn(Before, T2.buckets_[i + 1][p].first)
                              < PlaceIn(Before, T2.buckets_[i + 1][q].first)]_vars

\* rehash(1) has just gathered the three entries of two buckets into one,
\* the two of old bucket 0 before the one of old bucket 1
C30_Witness ==
    /\ last.op = "rehash"
    /\ last.out = "ok"
    /\ last.c0 = 2
    /\ last.n = 1
    /\ bucket_size(tables["a"], 0) = 3
    /\ tables["a"].buckets_[1][3].first = 2

\* C31: insert, emplace or operator[] of an already-present key never changes
\* size() or any stored pair, yet runs the growth check first: when
\* size()/bucket_count() > max_load_factor() at the call, bucket_count()
\* doubles although nothing is inserted, and the cursors held on the table
\* are invalidated.
C31_PresentKeyStillGrows ==
    [][(last'.op \in {"insert", "emplace", "operator[]"} /\ Stored(tables["a"], last'.k)) =>
          LET T == tables["a"]
              T2 == tables'["a"]
          IN /\ last'.out = "ok"
             /\ ~last'.flag
             /\ size(T2) = size(T)
             /\ Pairs(T2) = Pairs(T)
             /\ Len(Flatten(T2.buckets_)) = Len(Flatten(T.buckets_))
             /\ GrowthRule(T, T2)
             /\ StrictlyOver(T) =>
                   \A c \in EntryCursors("a") :
                      ~CursorAtEntry(tables', AfterGrowthCheck(c, T, "a"))
             /\ ~StrictlyOver(T) => T2 = T]_vars

\* operator[] of a stored key has just doubled two buckets of three entries
\* to four and inserted nothing
C31_Witness ==
    /\ last.op = "operator[]"
    /\ last.out = "ok"
    /\ ~last.flag
    /\ last.c0 = 2
    /\ bucket_count(tables["a"]) = 4
    /\ size(tables["a"]) = 3

\* T2 is T1 with v written to the mapped value of the entry of key k and
\* nothing else changed: same bucket array, same lists, same keys at the
\* same positions, same values elsewhere; find(k) and at(k) then give v
WroteOnly(T1, T2, k, v) ==
    /\ bucket_count(T2) = bucket_count(T1)
    /\ size(T2) = size(T1)
    /\ T2.max_load_factor_ = T1.max_load_factor_
    /\ \A i \in 0..(bucket_count(T1) - 1) :
          /\ bucket_size(T2, i) = bucket_size(T1, i)
          /\ \A p \in 1..bucket_size(T1, i) :
                /\ T2.buckets_[i + 1][p].first = T1.buckets_[i + 1][p].first
                /\ T2.buckets_[i + 1][p].second =
                      IF T1.buckets_[i + 1][p].first = k THEN v
                      ELSE T1.buckets_[i + 1][p].second
    /\ FindYields(T2, k, v)
    /\ ValueOf(T2, k) = v
    /\ tables'["b"] = tables["b"]

\* C32: a write through the reference that at(k) or operator[](k) returned,
\* or through a dereferenced cursor, changes only the mapped value of that
\* entry; its key, bucket and position, size(), bucket_count() and every
\* other entry are as they were, and find(k) and at(k) yield the value
\* written.
C32_WriteThroughReference ==
    [][/\ (last'.op = "operator[]=" /\ last'.out = "ok") =>
            WroteOnly(insert(tables["a"], [first |-> last'.k, second |-> 0]).map,
                      tables'["a"], last'.k, last'.v)
       /\ (last'.op = "at=" /\ last'.out = "ok") =>
            /\ Stored(tables["a"], last'.k)
            /\ WroteOnly(tables["a"], tables'["a"], last'.k, last'.v)
       /\ (last'.op = "it=" /\ last'.flag) =>
            /\ Stored(tables["a"], last'.k)
            /\ WroteOnly(tables["a"], tables'["a"], last'.k, last'.v)]_vars

\* m.at(2) = 1 has just changed the value of the second of two entries of
\* one bucket, the first keeping its value 0
C32_Witness ==
    /\ last.op = "at="
    /\ last.out = "ok"
    /\ last.k = 2
    /\ last.v = 1
    /\ bucket_count(tables["a"]) = 1
    /\ tables["a"].buckets_[1] = <<[first |-> 1, second |-> 0], [first |-> 2, second |-> 1]>>

\* C33: a copy assignment A = B with A distinct from B always returns;
\* afterwards A holds exactly the (key, value) pairs of B, as many entries as
\* B and the max_load_factor of B, no entry of A from before the assignment
\* remains unless B holds it too, and B is as it was; A = A leaves the
\* entries, the size and the bucket_count of A (and the other table)
\* unchanged.
C33_CopyAssign ==
    [][/\ (last'.op = "copy=" /\ last'.t # last'.s /\ CopyAssign(last'.t, last'.s)) =>
            LET A == tables[last'.t]
                A2 == tables'[last'.t]
                B == tables[last'.s]
            IN /\ last'.out = "ok"
               /\ Pairs(A2) = Pairs(B)
               /\ size(A2) = size(B)
               /\ Len(Flatten(A2.buckets_)) = Len(Flatten(B.buckets_))
               /\ A2.max_load_factor_ = B.max_load_factor_
               /\ \A e \in Pairs(A) \ Pairs(B) : e \notin Pairs(A2)
               /\ \A k \in Keys : Stored(A2, k) <=> Stored(B, k)
               /\ tables'[last'.s] = B
       /\ (last'.op = "copy=" /\ last'.t = last'.s /\ CopyAssign(last'.t, last'.s)) =>
            /\ last'.out = "ok"
            /\ tables' = tables]_vars

\* a = b has just replaced the contents of a by the single entry of b and
\* given it the lowered max_load_factor of b
C33_Witness ==
    /\ last.op = "copy="
    /\ last.t = "a"
    /\ last.s = "b"
    /\ last.out = "ok"
    /\ size(tables["b"]) = 1
    /\ Pairs(tables["a"]) = Pairs(tables["b"])
    /\ tables["a"].max_load_factor_ = <<1, 2>>

\* the pairs that init leaves in a table: each distinct key with the value
\* of its first occurrence
FirstPairs(init) == { [first |-> k, second |-> FirstOf(init, k)] : k \in KeysOf(init) }

\* T = init has made T2 of T: T2 is the map of the first occurrences of init
\* and holds nothing else, the threshold is the one of T, the bucket array is
\* not smaller, and it is the same when no growth check of the insertions
\* can have found the load factor above the threshold
ListAssigned(init, T, T2) ==
    /\ ListBuilt(init, T2)
    /\ Pairs(T2) = FirstPairs(init)
    /\ T2.max_load_factor_ = T.max_load_factor_
    /\ bucket_count(T2) >= bucket_count(T)
    /\ (Len(init) = 0 \/
        (Len(init) - 1) * T.max_load_factor_[2] <= T.max_load_factor_[1] * bucket_count(T)) =>
          bucket_count(T2) = bucket_count(T)

\* C34: an assignment from a list of pairs to a table in any state leaves
\* the table mapping each distinct key of the list to the value of its first
\* occurrence and holding no entry from before; max_load_factor() is
\* unchanged and bucket_count() is not reduced, and is unchanged unless an
\* insertion of the list grows the bucket array.
C34_ListAssign ==
    [][\A init \in InitLists :
          (last'.op = "list=" /\ AssignList("a", init)) =>
             ListAssigned(init, tables["a"], tables'["a"])]_vars

\* C34 for assignments to a table with at least one bucket or of an empty
\* list
C34_ListAssignWithBuckets ==
    [][\A init \in InitLists :
          (last'.op = "list=" /\ AssignList("a", init)
             /\ (~NoBuckets(tables["a"]) \/ init = <<>>)) =>
             ListAssigned(init, tables["a"], tables'["a"])]_vars

\* a list of two pairs has been assigned to a table of one bucket with the
\* lowered threshold: the bucket array has grown to two buckets
C34_Witness ==
    /\ last.op = "list="
    /\ last.out = "ok"
    /\ last.n = 2
    /\ size(tables["a"]) = 2
    /\ bucket_count(tables["a"]) = 2
    /\ tables["a"].max_load_factor_ = <<1, 2>>

\* a non-empty list has been assigned to a table without buckets
C34_ZeroBuckets ==
    /\ last.op = "list="
    /\ last.out = "abort"
    /\ NoBuckets(tables["a"])

\* C35: when insert, emplace or operator[] with key k returns, also after
\* growing the bucket array in that call, the iterator it returned (the one
\* operator[] takes its reference from) has the bucket index bucket(k) of
\* the table as it is now and a list position inside that bucket, is not
\* end(), dereferences to the stored entry with key k, equals find(k), and
\* can be advanced.
C35_ReturnedCursor ==
    [][(last'.op \in {"insert", "emplace", "operator[]"} /\ last'.out = "ok") =>
          LET T2 == tables'["a"]
              it == last'.it
              c == Cursor("a", it)
          IN /\ it.bucket_index_ = bucket(T2, last'.k)
             /\ it.list_it_[1] = it.bucket_index_
             /\ it.list_it_[2] \in 1..Len(T2.buckets_[it.bucket_index_ + 1])
             /\ ~IterEq(T2, it, end(T2))
             /\ Deref(T2, it).first = last'.k
             /\ Deref(T2, it) \in Pairs(T2)
             /\ IterEq(T2, it, find(T2, last'.k))
             /\ last'.flag => Deref(T2, it).second = last'.v
             /\ last'.op = "operator[]" => Deref(T2, it).second = last'.v
             /\ CursorAtEntry(tables', c)
             /\ CursorEq(tables', c, Cursor("a", find(T2, last'.k)))
             /\ ~CursorAdvance(tables', c).ub]_vars

\* insert(2, v) on a table of two buckets has grown the array to four and
\* returned the iterator at the new entry, in bucket 3
C35_Witness ==
    /\ last.op = "insert"
    /\ last.out = "ok"
    /\ last.flag
    /\ last.k = 2
    /\ last.c0 = 2
    /\ bucket_count(tables["a"]) = 4
    /\ last.it.bucket_index_ = 3

\* C36: a table constructed with at least one bucket that keeps
\* max_load_factor 1.0 and only takes insert, emplace, operator[], erase,
\* clear, lookups and copies satisfies size() <= bucket_count() + 1 in every
\* reachable state; it keeps at least one bucket and no call on it aborts.
C36_BoundedOvershoot ==
    /\ ub = "none"
    /\ \A t \in Tables :
          /\ tables[t].max_load_factor_ = <<1, 1>>
          /\ bucket_count(tables[t]) >= 1
          /\ size(tables[t]) <= bucket_count(tables[t]) + 1

\* a table of two buckets holds three entries: its load factor is above the
\* threshold by one entry
C36_Witness ==
    /\ bucket_count(tables["a"]) = 2
    /\ size(tables["a"]) = 3
    /\ LoadExceeds(tables["a"])
    /\ last.op \in {"insert", "emplace", "operator[]"}
    /\ last.flag

\* r is what insert(k, v2) returns on the table T1 that erase(k) left: the
\* pair went in, find(k) yields v2, and the entry is the last of its bucket,
\* every entry before it being one that T1 held
Reinserted(T1, r, k, v2) ==
    LET T2 == r.map
        lst == T2.buckets_[bucket(T2, k) + 1]
    IN /\ r.inserted
       /\ FindYields(T2, k, v2)
       /\ ValueOf(T2, k) = v2
       /\ size(T2) = size(T1) + 1
       /\ Pairs(T2) = Pairs(T1) \cup {[first |-> k, second |-> v2]}
       /\ lst # <<>>
       /\ lst[Len(lst)] = [first |-> k, second |-> v2]
       /\ r.it = Iter(bucket(T2, k), bucket(T2, k), Len(lst))
       /\ \A i \in 1..(Len(lst) - 1) : lst[i] \in Pairs(T1)

\* C37: erase(k) of a present key k leaves a table on which insert(k, v2),
\* for every v2, returns inserted = true, after which find(k) yields v2 (and
\* not the value k had before the erase when v2 differs from it) and the
\* entry of k is the last of its bucket, behind every entry that survived
\* the erase; and every insert(k, v2) or emplace(k, v2) that directly
\* follows such an erase(k) has this outcome.
C37_EraseThenInsert ==
    [][/\ (last'.op = "erase" /\ last'.out = "ok" /\ last'.n = 1) =>
            LET T == tables["a"]
                T1 == tables'["a"]
                k == last'.k
            IN /\ Stored(T, k)
               /\ ~Stored(T1, k)
               /\ ~InsertUB(T1)
               /\ \A v2 \in 0..MaxStamp :
                     LET r == insert(T1, [first |-> k, second |-> v2])
                     IN /\ Reinserted(T1, r, k, v2)
                        /\ (v2 # ValueOf(T, k)) => ~FindYields(r.map, k, ValueOf(T, k))
       /\ (/\ last.op = "erase" /\ last.out = "ok" /\ last.n = 1
           /\ last'.op \in {"insert", "emplace"} /\ last'.k = last.k) =>
            /\ last'.out = "ok"
            /\ last'.flag
            /\ Reinserted(tables["a"],
                          [map |-> tables'["a"], it |-> last'.it, inserted |-> last'.flag],
                          last'.k, last'.v)]_vars

\* key 1 has just been inserted with the stamp 4 into a table whose keys 2
\* and 3 carry the stamps 2 and 3, as after the insertion of 1, 2 and 3,
\* erase(1) and insert(1): it is the last entry of bucket 0, behind the
\* entry of key 3
C37_Witness ==
    /\ last.op = "insert"
    /\ last.out = "ok"
    /\ last.flag
    /\ last.k = 1
    /\ last.v = 4
    /\ bucket_count(tables["a"]) = 2
    /\ tables["a"].buckets_[1] = <<[first |-> 3, second |-> 3], [first |-> 1, second |-> 4]>>
    /\ tables["a"].buckets_[2] = <<[first |-> 2, second |-> 2]>>

====
